---- MODULE Spec2Model ----
(***************************************************************************)
(* A model of the core of ratatui-kit-principle: the keyed multimap that   *)
(* holds a node's children, the reconciler (update_children), the          *)
(* positional hook engine (use_hook) and the state cell behind use_state.  *)
(*                                                                         *)
(* Each mechanism is a state machine of its own over its own variables:    *)
(*   SpecMM     the multimap driven directly (push_back, from, pop_front)  *)
(*   SpecRec    one node's children collection under update_children       *)
(*   SpecHooks  one instance's hook slot list under repeated updates       *)
(*   SpecState  one state cell, its views, and the change-poll             *)
(***************************************************************************)
EXTENDS Integers, Sequences, FiniteSets, TLC

VARIABLES
    mm,            \* multimap under test: [items, m]
    mmFrozen,      \* FALSE: AppendOnlyMultimap, TRUE: RemoveOnlyMultimap
    mmPushes,      \* history: <<[key, value]>> in push order
    mmPops,        \* history: <<[key, ret, same]>> in pop order
    components,    \* the node's children: RemoveOnlyMultimap<ElementKey, InstantiatedComponent>
    recFault,      \* TRUE once an update inside a pass has panicked
    recChildren,   \* history: the descriptors of the last pass
    recPrevChildren, \* history: the descriptors of the pass before it
    recPrev,       \* history: the collection as the last pass found it
    recLog,        \* history: what the last pass did for each descriptor
    recDestroyed,  \* history: ids of the instances the last pass dropped
    recJustPassed, \* TRUE while the collection is as the last pass left it
    hkInst,        \* one InstantiatedComponent: its hooks and first_update
    hkFault,       \* TRUE once an update of it has panicked
    hkCalls,       \* history: the use_hook calls of the last update's body
    hkLog,         \* history: what each of those calls did
    hkBefore,      \* history: the instance as the last update found it
    hkAfter,       \* history: the slots as the last update left them
    hkTouched,     \* history: slots written since the last update
    hkPolled,      \* history: the slots the last change-poll since the last update
                   \* visited, in order; None when there was none
    cell,          \* StateValue of one state cell: [value, waker, is_changed]
    stMut,         \* the StateMutRef held on the cell, if any: Option<[is_deref_mut]>
    stReaders,     \* number of StateRef views held on the cell
    stPolls,       \* polls of the slot so far; poll n registers waker n
    stViews,       \* mutable views taken so far
    stWritten,     \* history: written-through mutable views released so far
    stWakes,       \* history: the wakers woken, in order
    stLast,        \* history: the last operation on the cell
    subscribers,   \* Terminal.subscribers: the Weak references, as queue ids
    received_ctrl_c, \* Terminal.received_ctrl_c
    tmInner,       \* queue id -> TerminalEventsInner [pending, waker]
    tmAlive,       \* queue ids whose TerminalEvents (the Arc) is not dropped
    tmRead,        \* items read from the input stream so far
    tmEnded,       \* the input stream has yielded None
    tmPolls,       \* poll_next calls so far; poll n registers waker n
    tmDispatched,  \* history: the events handed to the subscriber walk, in order
    tmBorn,        \* history: queue id -> Len(tmDispatched) when it was created
    tmConsumed,    \* history: queue id -> the events poll_next returned, in order
    tmWakes,       \* history: the wakers woken, in order
    tmLast,        \* history: the last operation on the terminal
    lpPhase,       \* where Tree::render_loop is
    lpResult,      \* what render_loop returned, if it has
    lpRestored,    \* ratatui::restore() has run since ratatui::init()
    lpStream,      \* items the EventStream holds, not yet read
    lpCell,        \* a state cell of the root component: [value, waker, is_changed]
    lpHeld,        \* another task holds a mutable view of lpCell
    lpStreamWaker, \* the EventStream holds the loop task's waker
    lpWoken,       \* the loop task was woken since its last poll
    lpPolled,      \* the select of this cycle has been polled
    lpUpdates,     \* update passes so far
    lpDraws,       \* frames painted so far
    lpArrived,     \* input items arrived so far
    lpWrites,      \* mutable views of lpCell taken by other tasks so far
    lpLast,        \* history: the last step of the loop
    swCell,        \* the state cell of slot 0: [value, waker, is_changed]
    swQueue,       \* the subscriber queue of the event hook in slot 1
    swHeld,        \* another task holds a mutable view of swCell
    swSweeps,      \* change-polls of the instance so far
    swSent,        \* events dispatched to the queue so far
    swWrites,      \* mutable views of swCell taken by other tasks so far
    swDispatched,  \* history: the events dispatched to the queue, in order
    swHandled,     \* history: the events handed to the hook's callback, in order
    swLast,        \* history: the last operation, and the cell before it
    stack,         \* ContextStack.stack: the entries [type, mode, id], oldest first
    ctxFrames,     \* the with_context calls whose body is running, outermost first
    ctxGuard,      \* the Ref or RefMut a lookup handed out and not yet dropped
    ctxPushed,     \* values pushed so far; the n-th pushed value has id n
    ctxLookups,    \* lookups so far
    ctxFound,      \* history: ids of the values lookups have returned
    ctxLast,       \* history: the last operation on the stack
    ctxPanicked,   \* a panic is unwinding through the with_context calls
    ctxUse,        \* history: the last call of a UseContext accessor and its outcome
    prHeap,        \* the values AnyProps carriers point to: [kind, releases]
    prCarriers,    \* the AnyProps made so far: [props, how, live]
    prLast,        \* history: the last operation on a carrier, and the heap before it
    upInst,        \* the instances of the updated tree: [alive, first_update, hooks]
    upUpdates,     \* updates of the root so far
    upLast,        \* history: the callbacks of the last update of the root in
                   \* order, the instances before it, and the children rendered
    evHook,        \* the UseEventsImpl of the instance, None before its first update
    evSent,        \* events dispatched so far
    evLast,        \* history: the last operation; for a poll the events it took
                   \* from the queue, the events it passed to f, and the region
    shSlot,        \* the storage slot of the cell: [generation, in_use, value]
    shMut,         \* a StateMutRef of the cell is held
    shReaders,     \* StateRefs of the cell held
    shAccesses,    \* accessor calls so far
    shAfterDrop,   \* history: [handle, accessor, outcome, value] of the calls made
                   \* after the owner was dropped
    shLast,        \* history: the last accessor call and the slot it met
    odSlots,       \* the hook slots of the instance, in slot order; <<>> before
                   \* its first update
    odCell,        \* the StateValue of its use_state slot
    odQueue,       \* the TerminalEventsInner of its use_events slot
    odHeld,        \* another task holds a read view of the cell
    odPos,         \* the slot the running sweep polls next; 0 between sweeps
    odWoken,       \* the loop's waker was woken since the last sweep began
    odSweeps,      \* sweeps begun so far
    odSent,        \* events dispatched so far
    odCur,         \* history: what the running sweep has done so far
    odLast,        \* history: the last completed sweep
    odPrev,        \* history: the completed sweep before it
    psComponents,  \* ComponentUpdater.components of the node whose passes
                   \* carry the descriptors' properties
    psChildren,    \* history: the descriptors of the last pass
    psHeap,        \* history: the descriptors' property values after the pass
    psLog,         \* history: the steps of the last pass, in order
    psPasses,      \* passes so far
    sbHook,        \* the UseEventsImpl slot of the instance: [f, events]; None
                   \* before the first update
    sbSubscribers, \* Terminal.subscribers: the queues' ids
    sbInner,       \* the TerminalEventsInner of every queue created
    sbAlive,       \* the queues whose TerminalEvents is still held
    sbUpdates,     \* updates of the instance so far
    sbSent,        \* events dispatched so far
    sbPolls,       \* change-polls of the hook so far
    sbHandled,     \* history: the calls of the callback, [event, f]
    sbLast,        \* history: the last operation; for a poll the queue it met,
                   \* the events it took and what it returned
    spSlot,        \* the storage slot of the cell: [generation, in_use, value]
    spMut,         \* a StateMutRef (the exclusive view) is held on the cell
    spHolder,      \* who holds it: "self" is the task calling try_read
    spReaders,     \* number of StateRef views held on the cell
    spPc,          \* where the call of try_read is: "idle" between calls
    spTurns,       \* history: times the call in progress has gone round its loop,
                   \* counted up to MaxSpTurns
    spLast,        \* history: the last step of try_read, with what it met
    drStyles,      \* InstantiatedComponent.layout_style of every instance of the tree
    drIn,          \* the region the last draw pass was given (the frame's area)
    drDraws,       \* draw passes so far
    drLog,         \* history: the steps of the last draw pass, in order
    drAt,          \* history: the layout styles the last draw pass met
    twCells,       \* the state cells of the tree's use_state slots: [value, held]
    twSweeps,      \* change-poll sweeps of the tree so far
    twWrites,      \* writes to cells so far
    twLast,        \* history: the last operation, the cells before it, and the
                   \* slots a sweep polled with what each returned
    stTaken        \* history: the cell and the wakes when the held mutable view was
                   \* taken, and whether the view has been read and written
                   \* through

mmVars == <<mm, mmFrozen, mmPushes, mmPops>>

recVars == <<components, recFault, recChildren, recPrevChildren, recPrev,
             recLog, recDestroyed, recJustPassed>>

hkVars == <<hkInst, hkFault, hkCalls, hkLog, hkBefore, hkAfter, hkTouched,
            hkPolled>>

stVars == <<cell, stMut, stReaders, stPolls, stViews, stWritten, stWakes, stLast,
           stTaken>>

tmVars == <<subscribers, received_ctrl_c, tmInner, tmAlive, tmRead, tmEnded,
           tmPolls, tmDispatched, tmBorn, tmConsumed, tmWakes, tmLast>>

lpVars == <<lpPhase, lpResult, lpRestored, lpStream, lpCell, lpHeld, lpStreamWaker,
           lpWoken, lpPolled, lpUpdates, lpDraws, lpArrived, lpWrites, lpLast>>

swVars == <<swCell, swQueue, swHeld, swSweeps, swSent, swWrites, swDispatched,
           swHandled, swLast>>

ctxVars ==
    <<stack, ctxFrames, ctxGuard, ctxPushed, ctxLookups, ctxFound, ctxLast, ctxPanicked,
      ctxUse>>

prVars == <<prHeap, prCarriers, prLast>>

twVars == <<twCells, twSweeps, twWrites, twLast>>

upVars == <<upInst, upUpdates, upLast>>

evVars == <<evHook, evSent, evLast>>

shVars == <<shSlot, shMut, shReaders, shAccesses, shAfterDrop, shLast>>

odVars == <<odSlots, odCell, odQueue, odHeld, odPos, odWoken, odSweeps, odSent,
            odCur, odLast, odPrev>>

psVars == <<psComponents, psChildren, psHeap, psLog, psPasses>>

sbVars == <<sbHook, sbSubscribers, sbInner, sbAlive, sbUpdates, sbSent, sbPolls,
            sbHandled, sbLast>>

spVars == <<spSlot, spMut, spHolder, spReaders, spPc, spTurns, spLast>>

drVars == <<drStyles, drIn, drDraws, drLog, drAt>>

vars ==
    <<mmVars, recVars, hkVars, stVars, tmVars, lpVars, swVars, ctxVars, prVars,
      twVars, upVars, evVars, shVars, drVars, odVars, psVars, sbVars, spVars>>

(***************************************************************************)
(* Bounds of the model.                                                    *)
(***************************************************************************)
MaxPush == 3
MaxPop == 4
MaxChildren == 2
MaxHooks == 2
MaxPolls == 3
MaxViews == 2
MaxReaders == 1
MaxSubs == 2
MaxRead == 2
MaxSubPolls == 2
MaxCycles == 2
MaxArrive == 2
MaxWrites == 1
MaxSweeps == 3
MaxSent == 2
MaxSwWrites == 1
MaxDepth == 2
MaxCtxPushed == 2
MaxLookups == 2

MaxUses == 1

MaxProps == 2
MaxCarriers == 3

MaxTwSweeps == 2
MaxTwWrites == 2

MaxUpdates == 3

MaxEvSent == 2
MaxCoord == 3

\* draw passes of the tree
MaxDraws == 2

\* updates, dispatched events and polls of the subscribing hook
MaxSbUpdates == 3
MaxSbSent == 3
MaxSbPolls == 2

\* passes of update_children that carry properties
MaxPasses == 2
MaxPsChildren == 2

\* sweeps of the two-slot instance and events dispatched to it
MaxOdSweeps == 3
MaxOdSent == 2

MaxSpViews == 3
MaxSpGen == 3
MaxSpTurns == 2
MaxHandles == 2
MaxAccesses == 3

Keys == {"a", "b"}

(***************************************************************************)
(* Option<T>: None is the empty sequence, Some(v) a one-element sequence.  *)
(***************************************************************************)
None == <<>>

Some(v) == <<v>>

IsSome(o) == Len(o) = 1

Unwrap(o) == o[1]

(***************************************************************************)
(* multimap.rs.  items: Vec<Option<V>>; m: HashMap<K, VecDeque<usize>>.    *)
(* Indexes are kept as in the source (0-based); items[index] of the source *)
(* is items[index + 1] of the sequence.                                    *)
(***************************************************************************)
MultimapDefault == [items |-> <<>>, m |-> [k \in {} |-> <<>>]]

\* self.m.entry(key).or_default()
EntryOrDefault(m, key) == IF key \in DOMAIN m THEN m[key] ELSE <<>>

\* push_back as a mutant that queues the index at the front of the key's
\* deque (VecDeque::push_front).
push_back_front(self, key, value) ==
    LET index == Len(self.items)
    IN  [items |-> Append(self.items, Some(value)),
         m |-> [k \in DOMAIN self.m \cup {key} |->
                   IF k = key THEN <<index>> \o EntryOrDefault(self.m, key)
                   ELSE self.m[k]]]

\* AppendOnlyMultimap::push_back
push_back(self, key, value) ==
    LET index == Len(self.items)
    IN  [items |-> Append(self.items, Some(value)),
         m |-> [k \in DOMAIN self.m \cup {key} |->
                   IF k = key THEN Append(EntryOrDefault(self.m, key), index)
                   ELSE self.m[k]]]

\* From<AppendOnlyMultimap> for RemoveOnlyMultimap
MultimapFrom(value) == [items |-> value.items, m |-> value.m]

\* VecDeque::pop_front on the index queue of a key, as a mutant would do it
\* from the wrong end.
DequePopBack(q) == [ret |-> Some(q[Len(q)]), rest |-> SubSeq(q, 1, Len(q) - 1)]

\* VecDeque::pop_front of a non-empty queue
DequePopFront(q) == [ret |-> Some(Head(q)), rest |-> Tail(q)]

\* RemoveOnlyMultimap::pop_front: the multimap afterwards and the value returned
pop_front(self, key) ==
    IF key \notin DOMAIN self.m
    THEN [mm |-> self, ret |-> None]                       \* get_mut(key)?
    ELSE IF self.m[key] = <<>>
    THEN [mm |-> self, ret |-> None]                       \* pop_front()?
    ELSE LET p == DequePopFront(self.m[key])
             index == Unwrap(p.ret)
         IN  [mm |-> [items |-> [self.items EXCEPT ![index + 1] = None],
                      m |-> [self.m EXCEPT ![key] = p.rest]],
              ret |-> self.items[index + 1]]               \* items[index].take()

\* RemoveOnlyMultimap::iter: the values still present, in items order
RECURSIVE FilterSome(_)
FilterSome(items) ==
    IF items = <<>> THEN <<>>
    ELSE (IF IsSome(Head(items)) THEN <<Unwrap(Head(items))>> ELSE <<>>)
         \o FilterSome(Tail(items))

MultimapIter(self) == FilterSome(self.items)

(***************************************************************************)
(* SpecMM: pushes under arbitrary keys, the conversion, then pops.         *)
(***************************************************************************)
InitMM ==
    /\ mm = MultimapDefault
    /\ mmFrozen = FALSE
    /\ mmPushes = <<>>
    /\ mmPops = <<>>

mmOthers ==
    <<recVars, hkVars, stVars, tmVars, lpVars, swVars, ctxVars, prVars, twVars,
      upVars, evVars, shVars, drVars, odVars, psVars, sbVars, spVars>>

MMPushBack ==
    /\ ~mmFrozen
    /\ Len(mmPushes) < MaxPush
    /\ \E key \in Keys :
         LET value == Len(mmPushes) + 1
         IN  /\ mm' = push_back(mm, key, value)
             /\ mmPushes' = Append(mmPushes, [key |-> key, value |-> value])
    /\ UNCHANGED <<mmFrozen, mmPops>>
    /\ UNCHANGED mmOthers

MMFrom ==
    /\ ~mmFrozen
    /\ mm' = MultimapFrom(mm)
    /\ mmFrozen' = TRUE
    /\ UNCHANGED <<mmPushes, mmPops>>
    /\ UNCHANGED mmOthers

MMPopFront ==
    /\ mmFrozen
    /\ Len(mmPops) < MaxPop
    /\ \E key \in Keys :
         LET r == pop_front(mm, key)
         IN  /\ mm' = r.mm
             /\ mmPops' = Append(mmPops,
                    [key |-> key, ret |-> r.ret, same |-> (r.mm = mm)])
    /\ UNCHANGED <<mmFrozen, mmPushes>>
    /\ UNCHANGED mmOthers

NextMM == MMPushBack \/ MMFrom \/ MMPopFront

(***************************************************************************)
(* hooks/mod.rs.  A hook slot is Box<dyn AnyHook>: the concrete hook type  *)
(* (what downcast_mut::<H>() compares) and the hook's own state.           *)
(***************************************************************************)
HookSlot(H, state) == [type |-> H, val |-> state]

\* Hooks::new
HooksNew(hooks, first_update) ==
    [hooks |-> hooks, first_update |-> first_update, hook_index |-> 0]

\* The slot lookup as a mutant that trusts the caller about the type.
SlotLookupUnchecked(hooks, idx, H) ==
    IF idx < Len(hooks) THEN Some(idx) ELSE None

\* self.hooks.get_mut(idx).and_then(|hook| hook.any_self_mut().downcast_mut::<H>())
SlotLookup(hooks, idx, H) ==
    IF idx < Len(hooks) /\ hooks[idx + 1].type = H THEN Some(idx) ELSE None

\* use_hook as a mutant that stores a new slot on every update.
use_hook_always_init(self, H, f) ==
    [self |-> [hooks |-> Append(self.hooks, HookSlot(H, f)),
               first_update |-> self.first_update,
               hook_index |-> self.hook_index + 1],
     ret |-> SlotLookup(Append(self.hooks, HookSlot(H, f)), self.hook_index, H),
     inited |-> TRUE]

\* use_hook as a mutant that stores a new slot whenever the cursor is past
\* the end of the list.
use_hook_grow(self, H, f) ==
    LET pushed == IF self.first_update \/ self.hook_index >= Len(self.hooks)
                  THEN Append(self.hooks, HookSlot(H, f))
                  ELSE self.hooks
    IN  [self |-> [hooks |-> pushed,
                   first_update |-> self.first_update,
                   hook_index |-> self.hook_index + 1],
         ret |-> SlotLookup(pushed, self.hook_index, H),
         inited |-> self.first_update]

\* Hooks::use_hook.  f is the value the init closure would return; ret is
\* the slot handed back, None where expect() panics.
use_hook(self, H, f) ==
    LET pushed == IF self.first_update
                  THEN Append(self.hooks, HookSlot(H, f))
                  ELSE self.hooks
        idx == self.hook_index
    IN  [self |-> [hooks |-> pushed,
                   first_update |-> self.first_update,
                   hook_index |-> idx + 1],
         ret |-> SlotLookup(pushed, idx, H),
         inited |-> self.first_update]

\* A component's update body as far as the hook engine sees it: the
\* use_hook calls it makes, in order, each [type, init].  The body ends at
\* the first call that panics.  log has one entry per call made.
CallEntry(self, call, r) ==
    [idx |-> self.hook_index, type |-> call.type,
     ret |-> r.ret, inited |-> r.inited,
     slot |-> IF IsSome(r.ret) THEN Some(r.self.hooks[Unwrap(r.ret) + 1])
              ELSE None]

RECURSIVE RunBody(_, _, _)
RunBodyCalled(self, calls, log, r) ==
    IF IsSome(r.ret)
    THEN RunBody(r.self, Tail(calls), Append(log, CallEntry(self, Head(calls), r)))
    ELSE [self |-> r.self, fault |-> TRUE,
          log |-> Append(log, CallEntry(self, Head(calls), r))]

RunBody(self, calls, log) ==
    IF calls = <<>> THEN [self |-> self, fault |-> FALSE, log |-> log]
    ELSE RunBodyCalled(self, calls, log,
                       use_hook(self, Head(calls).type, Head(calls).init))

(***************************************************************************)
(* component/instantiated_component.rs                                     *)
(***************************************************************************)
\* InstantiatedComponent::new.  id is the identity of the allocation (not a
\* field of the source); component is the concrete component type that
\* helper.new_component built.
InstantiatedComponentNew(id, key, type) ==
    [id |-> id, key |-> key, component |-> type,
     children |-> MultimapDefault, hooks |-> <<>>, first_update |-> TRUE]

\* The end of update, as a mutant that forgets to clear first_update.
UpdateDoneKeepFirst(self, r) ==
    [self |-> [self EXCEPT !.hooks = r.self.hooks],
     fault |-> r.fault,
     log |-> r.log]

\* The end of InstantiatedComponent::update: self.first_update = false.  A
\* panic in the body unwinds past it.
UpdateDone(self, r) ==
    [self |-> [self EXCEPT !.hooks = r.self.hooks,
                           !.first_update = IF r.fault THEN @ ELSE FALSE],
     fault |-> r.fault,
     log |-> r.log]

\* InstantiatedComponent::update with the use_hook calls of the body.  The
\* pre/post update callbacks of the slots modelled here are the default
\* no-ops.
InstantiatedComponentUpdate(self, calls) ==
    UpdateDone(self, RunBody(HooksNew(self.hooks, self.first_update), calls, <<>>))

(***************************************************************************)
(* render/updater.rs: update_children on one node.                         *)
(***************************************************************************)
Types == {"A", "B"}

\* The update bodies of the two component types of the model: A declares
\* one state, B two.
TypeBody(type) ==
    IF type = "A" THEN <<[type |-> "state", init |-> "init"]>>
    ELSE <<[type |-> "state", init |-> "init"],
           [type |-> "state", init |-> "init"]>>

\* The child descriptors a pass may be given: [key, helper's component type].
Descriptors == [key : Keys, type : Types] \ {[key |-> "b", type |-> "B"]}

RECURSIVE SeqsUpTo(_, _)
SeqsUpTo(S, n) ==
    IF n = 0 THEN {<<>>}
    ELSE LET shorter == SeqsUpTo(S, n - 1)
         IN  shorter \cup {Append(q, x) : q \in {t \in shorter : Len(t) = n - 1}, x \in S}

Ids(instances) == {instances[i].id : i \in 1..Len(instances)}

\* The identity of a new allocation: one no live instance has.
FreshId(live) == CHOOSE id \in 1..(Cardinality(live) + 1) : id \notin live

\* The match guard, as a mutant that reuses whatever was popped.
ReusableAnyType(popped, child) == IsSome(popped)

\* The match guard, as a mutant that never matches.
ReusableNever(popped, child) == FALSE

\* The match guard: Some(component) if component.component().type_id()
\*                                     == child.helper().component_type_id()
Reusable(popped, child) ==
    IsSome(popped) /\ Unwrap(popped).component = child.type

\* The match of lines 78-91: the popped instance, or a new one.
MatchOrNew(child, popped, id) ==
    IF Reusable(popped, child) THEN Unwrap(popped)
    ELSE InstantiatedComponentNew(id, child.key, child.type)

\* What the pass has done so far.  A popped instance that is not reused is
\* dropped at the end of the match.
LoopAcc(acc, child, popped, component, u) ==
    [log |-> Append(acc.log,
                [child |-> child, popped |-> popped,
                 reused |-> Reusable(popped, child),
                 matched |-> component, after |-> u.self]),
     dropped |-> acc.dropped \cup
         (IF IsSome(popped) /\ ~Reusable(popped, child)
          THEN {Unwrap(popped).id} ELSE {}),
     live |-> acc.live \cup {component.id},
     fault |-> u.fault]

\* The loop of update_children.  old: self.components; used: used_compoent;
\* acc: [log, dropped, live, fault].
RECURSIVE UpdateChildrenLoop(_, _, _, _)
LoopUpdated(children, old, used, acc, popped, component, u) ==
    UpdateChildrenLoop(Tail(children), old,
                       push_back(used, Head(children).key, u.self),
                       LoopAcc(acc, Head(children), popped, component, u))

LoopMatched(children, old, used, acc, popped, component) ==
    LoopUpdated(children, old, used, acc, popped, component,
        InstantiatedComponentUpdate(component, TypeBody(Head(children).type)))

\* The pop of line 78, as a mutant that puts an instance of another type
\* back at the end of its key's queue for a later sibling.
LoopPoppedPutBack(children, used, acc, p) ==
    LoopMatched(children,
                IF IsSome(p.ret) /\ ~Reusable(p.ret, Head(children))
                THEN [items |-> [p.mm.items EXCEPT ![Unwrap(p.ret).id] = p.ret],
                      m |-> [p.mm.m EXCEPT ![Head(children).key] =
                                Append(@, Unwrap(p.ret).id - 1)]]
                ELSE p.mm,
                used, acc, p.ret,
                MatchOrNew(Head(children), p.ret, FreshId(acc.live)))

LoopPopped(children, used, acc, p) ==
    LoopMatched(children, p.mm, used, acc, p.ret,
                MatchOrNew(Head(children), p.ret, FreshId(acc.live)))

UpdateChildrenLoop(children, old, used, acc) ==
    IF children = <<>> \/ acc.fault
    THEN [old |-> old, used |-> used, acc |-> acc]
    ELSE LoopPopped(children, used, acc, pop_front(old, Head(children).key))

\* The last statement of the pass, as a mutant that keeps the instances
\* left in the old multimap behind the new ones.
RECURSIVE PushAll(_, _)
PushAll(used, instances) ==
    IF instances = <<>> THEN used
    ELSE PushAll(push_back(used, Head(instances).key, Head(instances)),
                 Tail(instances))

ReplaceComponentsKeepOld(old, used) ==
    MultimapFrom(PushAll(used, MultimapIter(old)))

\* self.components.components = used_compoent.into()
ReplaceComponents(old, used) == MultimapFrom(used)

\* The result of a pass: the node's collection afterwards and what the
\* pass did.  The assignment drops the old multimap with every instance
\* still in it.
PassResult(r, new) ==
    [components |-> IF r.acc.fault THEN r.old ELSE new,
     log |-> r.acc.log,
     dropped |-> IF r.acc.fault THEN r.acc.dropped
                 ELSE r.acc.dropped \cup
                      (Ids(MultimapIter(r.old)) \ Ids(MultimapIter(new))),
     fault |-> r.acc.fault]

PassEnd(r) == PassResult(r, ReplaceComponents(r.old, r.used))

\* ComponentUpdater::update_children
update_children(self, children) ==
    PassEnd(UpdateChildrenLoop(children, self, MultimapDefault,
                [log |-> <<>>, dropped |-> {},
                 live |-> Ids(MultimapIter(self)), fault |-> FALSE]))

(***************************************************************************)
(* SpecRec: passes of update_children over one node, with writes to the    *)
(* children's state cells in between.                                      *)
(***************************************************************************)
InitRec ==
    /\ components = MultimapDefault
    /\ recFault = FALSE
    /\ recChildren = <<>>
    /\ recPrevChildren = <<>>
    /\ recPrev = <<>>
    /\ recLog = <<>>
    /\ recDestroyed = {}
    /\ recJustPassed = FALSE

recOthers ==
    <<mmVars, hkVars, stVars, tmVars, lpVars, swVars, ctxVars, prVars, twVars,
      upVars, evVars, shVars, drVars, odVars, psVars, sbVars, spVars>>

\* Identities are compared across one pass only, so between passes the
\* instances of the collection are renumbered by their position in it.
Renumber(self) ==
    [self EXCEPT !.items =
        [i \in 1..Len(self.items) |->
            IF IsSome(self.items[i])
            THEN Some([Unwrap(self.items[i]) EXCEPT !.id = i])
            ELSE None]]

RecPass(children, r) ==
    /\ components' = IF r.fault THEN r.components ELSE Renumber(r.components)
    /\ recFault' = r.fault
    /\ recChildren' = children
    /\ recPrevChildren' = recChildren
    /\ recPrev' = MultimapIter(components)
    /\ recLog' = r.log
    /\ recDestroyed' = r.dropped
    /\ recJustPassed' = ~r.fault

RecUpdateChildren ==
    /\ ~recFault
    /\ \E children \in SeqsUpTo(Descriptors, MaxChildren) :
         RecPass(children, update_children(components, children))
    /\ UNCHANGED recOthers

\* A write to the first state cell of a child through its State handle
\* (State::set from an event callback or a future).
RecSetState ==
    /\ ~recFault
    /\ \E i \in 1..Len(components.items) :
         /\ IsSome(components.items[i])
         /\ Unwrap(components.items[i]).hooks # <<>>
         /\ Unwrap(components.items[i]).hooks[1].val # "set"
         /\ components' =
               [components EXCEPT !.items[i] =
                   Some([Unwrap(@) EXCEPT !.hooks[1].val = "set"])]
    /\ recJustPassed' = FALSE
    /\ UNCHANGED <<recFault, recChildren, recPrevChildren, recPrev, recLog,
                   recDestroyed>>
    /\ UNCHANGED recOthers

NextRec == RecUpdateChildren \/ RecSetState

(***************************************************************************)
(* SpecHooks: one instance updated again and again, each time with a body  *)
(* that makes some sequence of use_hook calls, and writes to the slots'    *)
(* state in between.                                                       *)
(***************************************************************************)
HookTypes == {"state", "events"}

HookCalls == [type : HookTypes, init : {"init"}]

InitHooks ==
    /\ hkInst = InstantiatedComponentNew(1, "a", "A")
    /\ hkFault = FALSE
    /\ hkCalls = <<>>
    /\ hkLog = <<>>
    /\ hkBefore = InstantiatedComponentNew(1, "a", "A")
    /\ hkAfter = <<>>
    /\ hkTouched = {}
    /\ hkPolled = None

hkOthers ==
    <<mmVars, recVars, stVars, tmVars, lpVars, swVars, ctxVars, prVars, twVars,
      upVars, evVars, shVars, drVars, odVars, psVars, sbVars, spVars>>

HkUpdated(calls, r) ==
    /\ hkInst' = r.self
    /\ hkFault' = r.fault
    /\ hkCalls' = calls
    /\ hkLog' = r.log
    /\ hkBefore' = hkInst
    /\ hkAfter' = r.self.hooks
    /\ hkTouched' = {}
    /\ hkPolled' = None

HkUpdate ==
    /\ ~hkFault
    /\ \E calls \in SeqsUpTo(HookCalls, MaxHooks) :
         HkUpdated(calls, InstantiatedComponentUpdate(hkInst, calls))
    /\ UNCHANGED hkOthers

\* A write to the state a slot holds, between two updates.
HkWriteSlot ==
    /\ ~hkFault
    /\ \E n \in 1..Len(hkInst.hooks) :
         /\ hkInst.hooks[n].val # "set"
         /\ hkInst' = [hkInst EXCEPT !.hooks[n].val = "set"]
         /\ hkTouched' = hkTouched \cup {n}
    /\ UNCHANGED <<hkFault, hkCalls, hkLog, hkBefore, hkAfter, hkPolled>>
    /\ UNCHANGED hkOthers

\* Hook for Vec<Box<dyn AnyHook>>::poll_change, from slot i on: the slots
\* whose poll_change it calls
RECURSIVE HooksPollChange(_, _, _)
HooksPollChange(hooks, i, visited) ==
    IF i > Len(hooks) THEN visited
    ELSE HooksPollChange(hooks, i + 1, Append(visited, i))

\* InstantiatedComponent::poll_change between two updates
HkPollChange ==
    /\ ~hkFault
    /\ hkPolled = None
    /\ hkPolled' = Some(HooksPollChange(hkInst.hooks, 1, <<>>))
    /\ UNCHANGED <<hkInst, hkFault, hkCalls, hkLog, hkBefore, hkAfter, hkTouched>>
    /\ UNCHANGED hkOthers

NextHooks == HkUpdate \/ HkWriteSlot \/ HkPollChange

(***************************************************************************)
(* hooks/use_state.rs: one state cell.  The cell lives in a                *)
(* GenerationalBox<StateValue<T>, SyncStorage>: try_write succeeds only    *)
(* while no view of the cell is held, try_read only while no mutable view  *)
(* is held; neither waits.                                                 *)
(***************************************************************************)
Vals == {"v0", "v1"}

\* UseStateImpl::new: the StateValue stored
StateValueNew(initial_value) ==
    [value |-> initial_value, waker |-> None, is_changed |-> FALSE]

\* self.inner.try_write() is Ok
TryWriteOk(mut, readers) == mut = None /\ readers = 0

\* self.inner.try_read() is Ok
TryReadOk(mut) == mut = None

\* UseStateImpl::poll_change.  borrowed: try_write() of the cell fails;
\* waker: cx.waker() of this poll.
poll_change(value, borrowed, waker) ==
    IF ~borrowed
    THEN IF value.is_changed
         THEN [value |-> [value EXCEPT !.is_changed = FALSE], ret |-> "ready"]
         ELSE [value |-> [value EXCEPT !.waker = Some(waker)], ret |-> "pending"]
    ELSE [value |-> value, ret |-> "pending"]

\* State::try_write: the view handed out
StateMutRefNew == [is_deref_mut |-> FALSE]

\* Deref for StateMutRef, as a mutant that marks the view as written.
StateMutRefDerefMarks(self) == [self EXCEPT !.is_deref_mut = TRUE]

\* Deref for StateMutRef: the view after &self.inner.value was handed out
StateMutRefDeref(self) == self

\* Drop for StateMutRef, as a mutant that wakes the waiter and leaves it
\* registered.
StateMutRefDropKeepWaker(self, inner) ==
    IF self.is_deref_mut
    THEN [inner |-> [inner EXCEPT !.is_changed = TRUE], woken |-> inner.waker]
    ELSE [inner |-> inner, woken |-> None]

\* Drop for StateMutRef: the cell afterwards and the waker woken, if any
StateMutRefDrop(self, inner) ==
    IF self.is_deref_mut
    THEN [inner |-> [inner EXCEPT !.is_changed = TRUE, !.waker = None],
          woken |-> inner.waker]
    ELSE [inner |-> inner, woken |-> None]

(***************************************************************************)
(* SpecState: the change-poll of the slot (the render loop's task) and     *)
(* views of the cell taken, used and released through State handles        *)
(* (event callbacks, futures, other tasks).                                *)
(***************************************************************************)
LastOp(op, ret, pre, borrowed, wrote, wakes) ==
    [op |-> op, ret |-> ret, pre |-> pre, borrowed |-> borrowed,
     wrote |-> wrote, wakes |-> wakes]

OtherOp == LastOp("other", "none", cell, FALSE, FALSE, Len(stWakes))

InitState ==
    /\ cell = StateValueNew("v0")
    /\ stMut = None
    /\ stReaders = 0
    /\ stPolls = 0
    /\ stViews = 0
    /\ stWritten = 0
    /\ stWakes = <<>>
    /\ stLast = LastOp("other", "none", StateValueNew("v0"), FALSE, FALSE, 0)
    /\ stTaken = [cell |-> StateValueNew("v0"), wakes |-> 0, read |-> FALSE,
                  written |-> FALSE]

stOthers ==
    <<mmVars, recVars, hkVars, tmVars, lpVars, swVars, ctxVars, prVars, twVars,
      upVars, evVars, shVars, drVars, odVars, psVars, sbVars, spVars>>

StPolled(r, borrowed) ==
    /\ cell' = r.value
    /\ stPolls' = stPolls + 1
    /\ stLast' = LastOp("poll", r.ret, cell, borrowed, FALSE, Len(stWakes))

\* Hook::poll_change of the slot
StPollChange ==
    /\ stPolls < MaxPolls
    /\ StPolled(poll_change(cell, ~TryWriteOk(stMut, stReaders), stPolls + 1),
                ~TryWriteOk(stMut, stReaders))
    /\ UNCHANGED <<stMut, stReaders, stViews, stWritten, stWakes, stTaken>>
    /\ UNCHANGED stOthers

\* State::try_write returning Some
StTryWrite ==
    /\ stViews < MaxViews
    /\ TryWriteOk(stMut, stReaders)
    /\ stMut' = Some(StateMutRefNew)
    /\ stViews' = stViews + 1
    /\ stLast' = OtherOp
    /\ stTaken' = [cell |-> cell, wakes |-> Len(stWakes), read |-> FALSE,
                   written |-> FALSE]
    /\ UNCHANGED <<cell, stReaders, stPolls, stWritten, stWakes>>
    /\ UNCHANGED stOthers

\* StateMutRef::deref_mut followed by a store through the reference
StDerefMut ==
    /\ IsSome(stMut)
    /\ \E v \in Vals :
         /\ v # cell.value
         /\ cell' = [cell EXCEPT !.value = v]
    /\ stMut' = Some([Unwrap(stMut) EXCEPT !.is_deref_mut = TRUE])
    /\ stLast' = OtherOp
    /\ stTaken' = [stTaken EXCEPT !.written = TRUE]
    /\ UNCHANGED <<stReaders, stPolls, stViews, stWritten, stWakes>>
    /\ UNCHANGED stOthers

\* StateMutRef::deref: a read through the mutable view
StDeref ==
    /\ IsSome(stMut)
    /\ ~stTaken.read
    /\ stMut' = Some(StateMutRefDeref(Unwrap(stMut)))
    /\ stTaken' = [stTaken EXCEPT !.read = TRUE]
    /\ stLast' = OtherOp
    /\ UNCHANGED <<cell, stReaders, stPolls, stViews, stWritten, stWakes>>
    /\ UNCHANGED stOthers

StDropped(self, r) ==
    /\ cell' = r.inner
    /\ stMut' = None
    /\ stWritten' = IF self.is_deref_mut THEN stWritten + 1 ELSE stWritten
    /\ stWakes' = IF IsSome(r.woken) THEN Append(stWakes, Unwrap(r.woken))
                  ELSE stWakes
    /\ stLast' = LastOp("drop", "none", cell, FALSE, self.is_deref_mut,
                        Len(stWakes))

\* Drop for StateMutRef
StDropMutRef ==
    /\ IsSome(stMut)
    /\ StDropped(Unwrap(stMut), StateMutRefDrop(Unwrap(stMut), cell))
    /\ UNCHANGED <<stReaders, stPolls, stViews, stTaken>>
    /\ UNCHANGED stOthers

\* State::try_read returning Some
StTryRead ==
    /\ stReaders < MaxReaders
    /\ TryReadOk(stMut)
    /\ stReaders' = stReaders + 1
    /\ stLast' = OtherOp
    /\ UNCHANGED <<cell, stMut, stPolls, stViews, stWritten, stWakes, stTaken>>
    /\ UNCHANGED stOthers

\* Drop of a StateRef
StDropRef ==
    /\ stReaders > 0
    /\ stReaders' = stReaders - 1
    /\ stLast' = OtherOp
    /\ UNCHANGED <<cell, stMut, stPolls, stViews, stWritten, stWakes, stTaken>>
    /\ UNCHANGED stOthers

NextState ==
    \/ StPollChange
    \/ StTryWrite
    \/ StDerefMut
    \/ StDeref
    \/ StDropMutRef
    \/ StTryRead
    \/ StDropRef

(***************************************************************************)
(* terminal.rs: the event multiplexer.                                     *)
(***************************************************************************)
\* crossterm key events as far as wait() tells them apart; n is the position
\* of the event in the input stream.
KeyCodes == {"c", "x"}

KeyEvents(n) ==
    [code : KeyCodes, ctrl : BOOLEAN, n : {n}] \ {[code |-> "x", ctrl |-> FALSE, n |-> n]}

\* what event_stream.next().await yields
StreamItems(n) ==
    [tag : {"ok"}, event : KeyEvents(n)] \cup {[tag |-> "err"], [tag |-> "none"]}

\* The Ctrl+C test, as a mutant that does not look at the modifiers.
IsCtrlCAnyModifiers(event) == event.code = "c"

\* matches!(key.code, KeyCode::Char('c')) && key.modifiers.contains(CONTROL)
IsCtrlC(event) == event.code = "c" /\ event.ctrl

\* Terminal::events, as a mutant whose new queue holds an event already.
TerminalEventsInnerStale ==
    [pending |-> <<[code |-> "x", ctrl |-> TRUE, n |-> 1]>>, waker |-> None]

\* Terminal::events: the TerminalEventsInner of a new subscriber
TerminalEventsInnerNew == [pending |-> <<>>, waker |-> None]

\* Terminal::events: self.subscribers.push(Arc::downgrade(&inner))
SubscribersPush(subs, id) == Append(subs, id)

\* TerminalEvents::poll_next; ret None stands for Poll::Pending
poll_next(inner, waker) ==
    IF inner.pending # <<>>
    THEN [inner |-> [inner EXCEPT !.pending = Tail(inner.pending)],
          ret |-> Some(Head(inner.pending))]
    ELSE [inner |-> [inner EXCEPT !.waker = Some(waker)], ret |-> None]

\* The retain closure on a live subscriber, as a mutant that wakes the waker
\* and delivers nothing.
DeliverWakeOnly(inner, event) == [inner EXCEPT !.waker = None]

\* The retain closure on a live subscriber: push_back and waker.take()
Deliver(inner, event) ==
    [inner EXCEPT !.pending = Append(inner.pending, event), !.waker = None]

\* subscriber.upgrade() is Some, as a mutant that prunes nobody.
UpgradeAlways(alive, id) == TRUE

\* subscriber.upgrade() is Some
Upgrade(alive, id) == id \in alive

RetainAcc(acc, id, live, event) ==
    IF live
    THEN [subscribers |-> Append(acc.subscribers, id),
          inner |-> [acc.inner EXCEPT ![id] = Deliver(acc.inner[id], event)],
          woken |-> IF IsSome(acc.inner[id].waker)
                    THEN Append(acc.woken, <<id, Unwrap(acc.inner[id].waker)>>)
                    ELSE acc.woken]
    ELSE acc

\* self.subscribers.retain(..) of Terminal::wait, walking subs from index i
RECURSIVE Retain(_, _, _, _, _)
Retain(subs, i, alive, event, acc) ==
    IF i > Len(subs) THEN acc
    ELSE Retain(subs, i + 1, alive, event,
                RetainAcc(acc, subs[i], Upgrade(alive, subs[i]), event))

(***************************************************************************)
(* SpecTerm: subscribers are created and dropped, poll their queues, and   *)
(* Terminal::wait reads the input stream.                                  *)
(***************************************************************************)
SubIds == 1..MaxSubs

TmOp(op, id) ==
    [op |-> op, id |-> id, subscribers |-> subscribers, inner |-> tmInner,
     alive |-> tmAlive, wakes |-> Len(tmWakes), item |-> [tag |-> "-"],
     flag |-> received_ctrl_c]

\* a turn of Terminal::wait, with the item event_stream.next() yielded
TmWaitOp(op, item) == [TmOp(op, 0) EXCEPT !.item = item]

InitTerm ==
    /\ subscribers = <<>>
    /\ received_ctrl_c = FALSE
    /\ tmInner = [id \in {} |-> TerminalEventsInnerNew]
    /\ tmAlive = {}
    /\ tmRead = 0
    /\ tmEnded = FALSE
    /\ tmPolls = 0
    /\ tmDispatched = <<>>
    /\ tmBorn = [id \in {} |-> 0]
    /\ tmConsumed = [id \in {} |-> <<>>]
    /\ tmWakes = <<>>
    /\ tmLast = [op |-> "new", id |-> 0, subscribers |-> <<>>,
                 inner |-> [id \in {} |-> TerminalEventsInnerNew],
                 alive |-> {}, wakes |-> 0, item |-> [tag |-> "-"], flag |-> FALSE]

tmOthers ==
    <<mmVars, recVars, hkVars, stVars, lpVars, swVars, ctxVars, prVars, twVars,
      upVars, evVars, shVars, drVars, odVars, psVars, sbVars, spVars>>

\* Terminal::events
TmEventsAs(id) ==
    /\ subscribers' = SubscribersPush(subscribers, id)
    /\ tmInner' = [i \in DOMAIN tmInner \cup {id} |->
                      IF i = id THEN TerminalEventsInnerNew ELSE tmInner[i]]
    /\ tmAlive' = tmAlive \cup {id}
    /\ tmBorn' = [i \in DOMAIN tmBorn \cup {id} |->
                     IF i = id THEN Len(tmDispatched) ELSE tmBorn[i]]
    /\ tmConsumed' = [i \in DOMAIN tmConsumed \cup {id} |->
                         IF i = id THEN <<>> ELSE tmConsumed[i]]
    /\ tmLast' = TmOp("events", id)

TmEvents ==
    /\ Cardinality(DOMAIN tmInner) < MaxSubs
    /\ TmEventsAs(Cardinality(DOMAIN tmInner) + 1)
    /\ UNCHANGED <<received_ctrl_c, tmRead, tmEnded, tmPolls, tmDispatched, tmWakes>>
    /\ UNCHANGED tmOthers

\* Drop of a TerminalEvents: the Arc's last strong reference goes
TmDropEvents ==
    /\ \E id \in tmAlive :
         /\ tmAlive' = tmAlive \ {id}
         /\ tmLast' = TmOp("drop", id)
    /\ UNCHANGED <<subscribers, received_ctrl_c, tmInner, tmRead, tmEnded, tmPolls,
                   tmDispatched, tmBorn, tmConsumed, tmWakes>>
    /\ UNCHANGED tmOthers

TmPolled(id, r) ==
    /\ tmInner' = [tmInner EXCEPT ![id] = r.inner]
    /\ tmConsumed' = IF IsSome(r.ret)
                     THEN [tmConsumed EXCEPT ![id] = Append(@, Unwrap(r.ret))]
                     ELSE tmConsumed
    /\ tmPolls' = tmPolls + 1
    /\ tmLast' = TmOp("poll", id)

\* TerminalEvents::poll_next by the owner of a queue
TmPollNext ==
    /\ tmPolls < MaxSubPolls
    /\ \E id \in tmAlive : TmPolled(id, poll_next(tmInner[id], tmPolls + 1))
    /\ UNCHANGED <<subscribers, received_ctrl_c, tmAlive, tmRead, tmEnded,
                   tmDispatched, tmBorn, tmWakes>>
    /\ UNCHANGED tmOthers

TmRetained(r, event) ==
    /\ subscribers' = r.subscribers
    /\ tmInner' = r.inner
    /\ tmWakes' = tmWakes \o r.woken
    /\ tmDispatched' = Append(tmDispatched, event)
    /\ tmLast' = TmWaitOp("dispatch", [tag |-> "ok", event |-> event])
    /\ UNCHANGED <<received_ctrl_c, tmEnded>>

\* One turn of the while loop of Terminal::wait on the item the stream yields
TmWaitItem(item) ==
    IF item.tag = "ok"
    THEN IF IsCtrlC(item.event)
         THEN /\ received_ctrl_c' = TRUE
              /\ tmLast' = TmWaitOp("return", item)
              /\ UNCHANGED <<subscribers, tmInner, tmWakes, tmDispatched, tmEnded>>
         ELSE TmRetained(Retain(subscribers, 1, tmAlive, item.event,
                                [subscribers |-> <<>>, inner |-> tmInner,
                                 woken |-> <<>>]),
                         item.event)
    ELSE /\ tmEnded' = (item.tag = "none")
         /\ tmLast' = TmWaitOp("return", item)
         /\ UNCHANGED <<subscribers, received_ctrl_c, tmInner, tmWakes, tmDispatched>>

TmWait ==
    /\ tmRead < MaxRead
    /\ ~tmEnded
    /\ tmRead' = tmRead + 1
    /\ \E item \in StreamItems(tmRead + 1) : TmWaitItem(item)
    /\ UNCHANGED <<tmAlive, tmPolls, tmBorn, tmConsumed>>
    /\ UNCHANGED tmOthers

NextTerm ==
    \/ TmEvents
    \/ TmDropEvents
    \/ TmPollNext
    \/ TmWait

(***************************************************************************)
(* render/tree.rs: Tree::render and Tree::render_loop.                     *)
(***************************************************************************)
NoEvent == [kind |-> "none", code |-> "", ctrl |-> FALSE]

\* crossterm events as far as render_loop tells them apart
LoopEvents ==
    [kind : {"key"}, code : {"q", "c"}, ctrl : BOOLEAN]
        \cup {[kind |-> "mouse", code |-> "", ctrl |-> FALSE]}

\* what event_stream.next() yields
LoopItems ==
    [tag : {"ok"}, event : LoopEvents]
        \cup {[tag |-> "err", event |-> NoEvent], [tag |-> "none", event |-> NoEvent]}

\* The match on the event branch, as a mutant that only knows the quit key.
BreaksLoopOnlyQ(item) ==
    IF item.tag = "ok"
    THEN item.event.kind = "key" /\ item.event.code = "q"
    ELSE TRUE

\* The match on the event branch of the select: TRUE where it reaches break
BreaksLoop(item) ==
    IF item.tag = "ok"
    THEN /\ item.event.kind = "key"
         /\ \/ item.event.code = "q"
            \/ item.event.code = "c" /\ item.event.ctrl
    ELSE TRUE

\* Tree::render, as a mutant that skips the paint.
AfterUpdateNoDraw == "Waiting"

\* Tree::render: after root_component.update comes terminal.draw
AfterUpdate == "Drawing"

\* terminal.draw(..)? in render and render(..)? in render_loop
AfterDraw(ok) == IF ok THEN "Waiting" ELSE "Terminated"

Resolved(branch, item, value, stream, registered) ==
    [branch |-> branch, item |-> item, cell |-> value, stream |-> stream,
     registered |-> registered]

\* The select, as a mutant that never polls the input branch.
SelectChangeOnly(ch, value, stream, first) ==
    IF ch.ret = "ready"
    THEN Resolved("change", [tag |-> "none", event |-> NoEvent], ch.value, stream, FALSE)
    ELSE Resolved("pending", [tag |-> "none", event |-> NoEvent], ch.value, stream, FALSE)

\* One poll of select! { root_component.wait(), event_stream.next() }.
\* ch: what the change-poll of the root gives if it is polled; first: the
\* branch select! polls first.  registered: event_stream.next() was polled
\* and found nothing.
SelectPoll(ch, value, stream, first) ==
    IF first = "change"
    THEN IF ch.ret = "ready"
         THEN Resolved("change", [tag |-> "none", event |-> NoEvent], ch.value, stream, FALSE)
         ELSE IF stream # <<>>
              THEN Resolved("event", Head(stream), ch.value, Tail(stream), FALSE)
              ELSE Resolved("pending", [tag |-> "none", event |-> NoEvent], ch.value, stream, TRUE)
    ELSE IF stream # <<>>
         THEN Resolved("event", Head(stream), value, Tail(stream), FALSE)
         ELSE IF ch.ret = "ready"
              THEN Resolved("change", [tag |-> "none", event |-> NoEvent], ch.value, stream, TRUE)
              ELSE Resolved("pending", [tag |-> "none", event |-> NoEvent], ch.value, stream, TRUE)

\* where the loop goes after a poll of the select
AfterSelect(r) ==
    IF r.branch = "pending" THEN "Waiting"
    ELSE IF r.branch = "event" /\ BreaksLoop(r.item) THEN "Terminated"
    ELSE "Updating"

(***************************************************************************)
(* SpecLoop: the render loop, input items arriving, and another task       *)
(* writing the root's state cell.                                          *)
(***************************************************************************)
LpStep(from, to, branch, item, dirty) ==
    [from |-> from, to |-> to, branch |-> branch, item |-> item, dirty |-> dirty,
     repoll |-> lpPolled]

InitLoop ==
    /\ lpPhase = "Idle"
    /\ lpResult = None
    /\ lpRestored = FALSE
    /\ lpStream = <<>>
    /\ lpCell = StateValueNew("v0")
    /\ lpHeld = FALSE
    /\ lpStreamWaker = FALSE
    /\ lpWoken = FALSE
    /\ lpPolled = FALSE
    /\ lpUpdates = 0
    /\ lpDraws = 0
    /\ lpArrived = 0
    /\ lpWrites = 0
    /\ lpLast = [from |-> "Idle", to |-> "Idle", branch |-> "none",
                 item |-> [tag |-> "none", event |-> NoEvent], dirty |-> FALSE,
                 repoll |-> FALSE]

lpOthers ==
    <<mmVars, recVars, hkVars, stVars, tmVars, swVars, ctxVars, prVars, twVars,
      upVars, evVars, shVars, drVars, odVars, psVars, sbVars, spVars>>

\* render_loop up to the loop: ratatui::init() and EventStream::new()
LpStart ==
    /\ lpPhase = "Idle"
    /\ lpPhase' = "Updating"
    /\ lpLast' = LpStep("Idle", "Updating", "none", [tag |-> "none", event |-> NoEvent], FALSE)
    /\ UNCHANGED <<lpResult, lpRestored, lpStream, lpCell, lpHeld, lpStreamWaker,
                   lpWoken, lpPolled, lpUpdates, lpDraws, lpArrived, lpWrites>>
    /\ UNCHANGED lpOthers

\* Tree::render: self.root_component.update(..)
LpUpdate ==
    /\ lpPhase = "Updating"
    /\ lpUpdates < MaxCycles
    /\ lpPhase' = AfterUpdate
    /\ lpUpdates' = lpUpdates + 1
    /\ lpLast' = LpStep("Updating", AfterUpdate, "none", [tag |-> "none", event |-> NoEvent], FALSE)
    /\ UNCHANGED <<lpResult, lpRestored, lpStream, lpCell, lpHeld, lpStreamWaker,
                   lpWoken, lpPolled, lpDraws, lpArrived, lpWrites>>
    /\ UNCHANGED lpOthers

\* Tree::render: terminal.draw(..)?, and render_loop's self.render(..)?
LpDrawn(ok, to) ==
    /\ lpPhase' = to
    /\ lpDraws' = IF ok THEN lpDraws + 1 ELSE lpDraws
    /\ lpResult' = IF to = "Terminated" THEN Some("Err") ELSE lpResult
    /\ lpPolled' = FALSE
    /\ lpLast' = LpStep("Drawing", to, IF ok THEN "none" ELSE "fault",
                        [tag |-> "none", event |-> NoEvent], FALSE)

LpDraw ==
    /\ lpPhase = "Drawing"
    /\ \E ok \in BOOLEAN : LpDrawn(ok, AfterDraw(ok))
    /\ UNCHANGED <<lpRestored, lpStream, lpCell, lpHeld, lpStreamWaker, lpWoken,
                   lpUpdates, lpArrived, lpWrites>>
    /\ UNCHANGED lpOthers

\* One poll of the select; on break, ratatui::restore() and Ok(())
LpSelected(r, to) ==
    /\ lpPhase' = to
    /\ lpCell' = r.cell
    /\ lpStream' = r.stream
    /\ lpStreamWaker' = (lpStreamWaker \/ r.registered)
    /\ lpWoken' = FALSE
    /\ lpPolled' = TRUE
    /\ lpRestored' = (lpRestored \/ to = "Terminated")
    /\ lpResult' = IF to = "Terminated" THEN Some("Ok") ELSE lpResult
    /\ lpLast' = LpStep("Waiting", to, r.branch, r.item, lpCell.is_changed)

LpSelectAs(r) == LpSelected(r, AfterSelect(r))

LpSelect ==
    /\ lpPhase = "Waiting"
    /\ ~lpPolled \/ lpWoken
    /\ \E first \in {"change", "event"} :
         LpSelectAs(SelectPoll(poll_change(lpCell, lpHeld, "loop"), lpCell, lpStream, first))
    /\ UNCHANGED <<lpHeld, lpUpdates, lpDraws, lpArrived, lpWrites>>
    /\ UNCHANGED lpOthers

\* An input item reaches the EventStream
LpArrive ==
    /\ lpPhase # "Idle"
    /\ lpArrived < MaxArrive
    /\ IF lpStream = <<>> THEN TRUE ELSE lpStream[Len(lpStream)].tag # "none"
    /\ \E item \in LoopItems : lpStream' = Append(lpStream, item)
    /\ lpArrived' = lpArrived + 1
    /\ lpWoken' = (lpWoken \/ lpStreamWaker)
    /\ lpStreamWaker' = FALSE
    /\ UNCHANGED <<lpPhase, lpResult, lpRestored, lpCell, lpHeld, lpPolled, lpUpdates,
                   lpDraws, lpWrites, lpLast>>
    /\ UNCHANGED lpOthers

\* Another task takes a mutable view of the cell (State::try_write)
LpTake ==
    /\ lpPhase # "Idle"
    /\ lpWrites < MaxWrites
    /\ ~lpHeld
    /\ lpHeld' = TRUE
    /\ lpWrites' = lpWrites + 1
    /\ UNCHANGED <<lpPhase, lpResult, lpRestored, lpStream, lpCell, lpStreamWaker,
                   lpWoken, lpPolled, lpUpdates, lpDraws, lpArrived, lpLast>>
    /\ UNCHANGED lpOthers

LpReleased(r) ==
    /\ lpCell' = r.inner
    /\ lpWoken' = (lpWoken \/ IsSome(r.woken))

\* That task writes through the view and releases it (Drop for StateMutRef)
LpRelease ==
    /\ lpHeld
    /\ lpHeld' = FALSE
    /\ LpReleased(StateMutRefDrop([is_deref_mut |-> TRUE], lpCell))
    /\ UNCHANGED <<lpPhase, lpResult, lpRestored, lpStream, lpStreamWaker, lpPolled,
                   lpUpdates, lpDraws, lpArrived, lpWrites, lpLast>>
    /\ UNCHANGED lpOthers

NextLoop ==
    \/ LpStart
    \/ LpUpdate
    \/ LpDraw
    \/ LpSelect
    \/ LpArrive
    \/ LpTake
    \/ LpRelease

(***************************************************************************)
(* hooks/use_events.rs, hooks/mod.rs, main.rs: the change-poll of an       *)
(* instance whose update registers use_state, then use_events (Counter).   *)
(***************************************************************************)
\* key events as far as Counter's callback tells them apart; n is the
\* position of the event in the input stream
CounterEvents(n) == [code : {"up", "other"}, n : {n}]

\* State::set from the callback: try_write, store, release
StateSet(value, held) ==
    IF TryWriteOk(IF held THEN Some(StateMutRefNew) ELSE None, 0)
    THEN StateMutRefDrop([is_deref_mut |-> TRUE], value).inner
    ELSE value

\* The callback Counter hands to use_events
CounterCallback(value, event, held) ==
    IF event.code = "up" THEN StateSet(value, held) ELSE value

\* UseEventsImpl::poll_change, as a mutant that empties the queue and hands
\* only the first event to the callback.
UseEventsPollSkipping(inner, value, handled, held, waker) ==
    [inner |-> [pending |-> <<>>, waker |-> Some(waker)], cell |-> value,
     handled |-> IF inner.pending = <<>> THEN handled
                 ELSE Append(handled, Head(inner.pending)),
     ret |-> "pending"]

\* UseEventsImpl::poll_change (global events): poll_next until it is not
\* Ready(Some(event)), the callback on every event; then Poll::Pending
RECURSIVE UseEventsPoll(_, _, _, _, _)
UseEventsPolled(r, value, handled, held, waker) ==
    IF IsSome(r.ret)
    THEN UseEventsPoll(r.inner, CounterCallback(value, Unwrap(r.ret), held),
                       Append(handled, Unwrap(r.ret)), held, waker)
    ELSE [inner |-> r.inner, cell |-> value, handled |-> handled, ret |-> "pending"]

UseEventsPoll(inner, value, handled, held, waker) ==
    UseEventsPolled(poll_next(inner, waker), value, handled, held, waker)

\* Hook for Vec<Box<dyn AnyHook>>::poll_change on the slots <<state, events>>:
\* every slot is polled, ready if one was.  s: the poll of slot 0.
HooksPollFrom(s, inner, handled, held, waker) ==
    [state |-> s.ret, rest |-> UseEventsPoll(inner, s.value, handled, held, waker)]

HooksPoll(value, inner, handled, held, waker) ==
    HooksPollFrom(poll_change(value, held, waker), inner, handled, held, waker)

HooksPollReady(p) == p.state = "ready" \/ p.rest.ret = "ready"

(***************************************************************************)
(* SpecSweep: change-polls of the instance, events dispatched to its       *)
(* queue, and another task writing its state cell.                         *)
(***************************************************************************)
SwOp(op, ready) == [op |-> op, ready |-> ready, cell |-> swCell]

InitSweep ==
    /\ swCell = StateValueNew("v0")
    /\ swQueue = TerminalEventsInnerNew
    /\ swHeld = FALSE
    /\ swSweeps = 0
    /\ swSent = 0
    /\ swWrites = 0
    /\ swDispatched = <<>>
    /\ swHandled = <<>>
    /\ swLast = [op |-> "new", ready |-> FALSE, cell |-> StateValueNew("v0")]

swOthers ==
    <<mmVars, recVars, hkVars, stVars, tmVars, lpVars, ctxVars, prVars, twVars,
      upVars, evVars, shVars, drVars, odVars, psVars, sbVars, spVars>>

SwSwept(p) ==
    /\ swCell' = p.rest.cell
    /\ swQueue' = p.rest.inner
    /\ swHandled' = p.rest.handled
    /\ swLast' = SwOp("sweep", HooksPollReady(p))

\* InstantiatedComponent::poll_change of the instance
SwSweep ==
    /\ swSweeps < MaxSweeps
    /\ swSweeps' = swSweeps + 1
    /\ SwSwept(HooksPoll(swCell, swQueue, swHandled, swHeld, "loop"))
    /\ UNCHANGED <<swHeld, swSent, swWrites, swDispatched>>
    /\ UNCHANGED swOthers

\* Terminal::wait hands an event to the queue
SwDispatch ==
    /\ swSent < MaxSent
    /\ swSent' = swSent + 1
    /\ \E event \in CounterEvents(swSent + 1) :
         /\ swQueue' = Deliver(swQueue, event)
         /\ swDispatched' = Append(swDispatched, event)
    /\ swLast' = SwOp("dispatch", FALSE)
    /\ UNCHANGED <<swCell, swHeld, swSweeps, swWrites, swHandled>>
    /\ UNCHANGED swOthers

\* Another task takes a mutable view of the cell (State::try_write)
SwTake ==
    /\ swWrites < MaxSwWrites
    /\ TryWriteOk(IF swHeld THEN Some(StateMutRefNew) ELSE None, 0)
    /\ swHeld' = TRUE
    /\ swWrites' = swWrites + 1
    /\ swLast' = SwOp("take", FALSE)
    /\ UNCHANGED <<swCell, swQueue, swSweeps, swSent, swDispatched, swHandled>>
    /\ UNCHANGED swOthers

\* That task writes through the view and releases it
SwRelease ==
    /\ swHeld
    /\ swHeld' = FALSE
    /\ swCell' = StateMutRefDrop([is_deref_mut |-> TRUE], swCell).inner
    /\ swLast' = SwOp("release", FALSE)
    /\ UNCHANGED <<swQueue, swSweeps, swSent, swWrites, swDispatched, swHandled>>
    /\ UNCHANGED swOthers

NextSweep ==
    \/ SwSweep
    \/ SwDispatch
    \/ SwTake
    \/ SwRelease

(***************************************************************************)
(* context.rs: Context and ContextStack.                                   *)
(***************************************************************************)
CtxTypes == {"T", "U"}

CtxModes == {"Ref", "Mut", "Owned"}

\* the Context values a caller can hand to with_context as its n-th value
Contexts(n) == [type : CtxTypes, mode : CtxModes, id : {n}]

\* ContextStack::root
ContextStackRoot == <<[type |-> "Root", mode |-> "Mut", id |-> 0]>>

\* Context::downcast_ref::<T> is Some
DowncastRef(context, T) == context.type = T

\* Context::downcast_mut::<T> is Some
DowncastMut(context, T) == context.mode # "Ref" /\ context.type = T

\* RefCell::try_borrow of entry i is Ok
TryBorrow(i, guard) == ~(IsSome(guard) /\ Unwrap(guard).idx = i /\ Unwrap(guard).kind = "mut")

\* RefCell::try_borrow_mut of entry i is Ok
TryBorrowMut(i, guard) == ~(IsSome(guard) /\ Unwrap(guard).idx = i)

\* ContextStack::get_context::<T>, scanning from entry i down: the index of
\* the entry returned, 0 for None
RECURSIVE get_context(_, _, _, _)
get_context(self, i, T, guard) ==
    IF i = 0 THEN 0
    ELSE IF TryBorrow(i, guard) /\ DowncastRef(self[i], T) THEN i
    ELSE get_context(self, i - 1, T, guard)

\* ContextStack::get_context_mut::<T>, scanning from entry i down
RECURSIVE get_context_mut(_, _, _, _)
get_context_mut(self, i, T, guard) ==
    IF i = 0 THEN 0
    ELSE IF TryBorrowMut(i, guard) /\ DowncastMut(self[i], T) THEN i
    ELSE get_context_mut(self, i - 1, T, guard)

\* with_context before the body: push when a context was given
WithContextPush(self, context) ==
    IF IsSome(context) THEN Append(self, Unwrap(context)) ELSE self

\* with_context after the body, as a mutant that pops whether or not it
\* pushed.
WithContextPopAlways(self, pushed) == SubSeq(self, 1, Len(self) - 1)

\* with_context after the body: pop when a context was given
WithContextPop(self, pushed) ==
    IF pushed THEN SubSeq(self, 1, Len(self) - 1) ELSE self

(***************************************************************************)
(* hooks/use_context.rs: the UseContext accessors of Hooks.  context is    *)
(* Hooks.context, an Option of the stack; the result is the entry found    *)
(* ("some"), None ("none") or the panic of an expect ("panic").            *)
(***************************************************************************)
Accessors ==
    {"use_context", "use_context_mut", "try_use_context", "try_use_context_mut"}

UseSome(i) == [outcome |-> "some", idx |-> i, msg |-> ""]

UseNone == [outcome |-> "none", idx |-> 0, msg |-> ""]

UsePanic(msg) == [outcome |-> "panic", idx |-> 0, msg |-> msg]

\* Option::expect on a lookup that returned index i
ExpectFound(i) == IF i = 0 THEN UsePanic("context not found") ELSE UseSome(i)

use_context(context, T, guard) ==
    IF context = None THEN UsePanic("context not available")
    ELSE ExpectFound(get_context(Unwrap(context), Len(Unwrap(context)), T, guard))

use_context_mut(context, T, guard) ==
    IF context = None THEN UsePanic("context not available")
    ELSE ExpectFound(get_context_mut(Unwrap(context), Len(Unwrap(context)), T, guard))

\* the optional accessors, as a mutant that unwraps the lookup's result
TryUseExpect(i) == ExpectFound(i)

\* Option::and_then on a lookup that returned index i
TryUseFound(i) == IF i = 0 THEN UseNone ELSE UseSome(i)

try_use_context(context, T, guard) ==
    IF context = None THEN UseNone
    ELSE TryUseFound(get_context(Unwrap(context), Len(Unwrap(context)), T, guard))

try_use_context_mut(context, T, guard) ==
    IF context = None THEN UseNone
    ELSE TryUseFound(get_context_mut(Unwrap(context), Len(Unwrap(context)), T, guard))

UseContext(accessor, context, T, guard) ==
    CASE accessor = "use_context" -> use_context(context, T, guard)
      [] accessor = "use_context_mut" -> use_context_mut(context, T, guard)
      [] accessor = "try_use_context" -> try_use_context(context, T, guard)
      [] accessor = "try_use_context_mut" -> try_use_context_mut(context, T, guard)

(***************************************************************************)
(* SpecCtx: nested with_context calls, lookups inside their bodies, and    *)
(* the guards the lookups hand out.                                        *)
(***************************************************************************)
CtxOp(op, type, ret, id) ==
    [op |-> op, type |-> type, ret |-> ret, id |-> id, before |-> stack,
     guard |-> ctxGuard]

InitCtx ==
    /\ stack = ContextStackRoot
    /\ ctxFrames = <<>>
    /\ ctxGuard = None
    /\ ctxPushed = 0
    /\ ctxLookups = 0
    /\ ctxFound = {}
    /\ ctxLast = [op |-> "root", type |-> "", ret |-> 0, id |-> 0,
                  before |-> ContextStackRoot, guard |-> None]
    /\ ctxPanicked = FALSE
    /\ ctxUse = [accessor |-> "", type |-> "", outcome |-> "", msg |-> "",
                 available |-> FALSE, before |-> <<>>]

ctxOthers ==
    <<mmVars, recVars, hkVars, stVars, tmVars, lpVars, swVars, prVars, twVars,
      upVars, evVars, shVars, drVars, odVars, psVars, sbVars, spVars>>

CtxEntered(context) ==
    /\ stack' = WithContextPush(stack, context)
    /\ ctxFrames' = Append(ctxFrames, [pushed |-> IsSome(context), before |-> stack,
                                       context |-> context])
    /\ ctxPushed' = IF IsSome(context) THEN ctxPushed + 1 ELSE ctxPushed
    /\ ctxLast' = CtxOp("enter", "", 0, IF IsSome(context) THEN Unwrap(context).id ELSE 0)

\* with_context is called: the push, then the body starts
CtxEnter ==
    /\ ~ctxPanicked
    /\ Len(ctxFrames) < MaxDepth
    /\ \/ CtxEntered(None)
       \/ /\ ctxPushed < MaxCtxPushed
          /\ \E context \in Contexts(ctxPushed + 1) : CtxEntered(Some(context))
    /\ UNCHANGED <<ctxGuard, ctxLookups, ctxFound, ctxPanicked, ctxUse>>
    /\ UNCHANGED ctxOthers

CtxLooked(kind, T, i) ==
    /\ ctxGuard' = IF i # 0 /\ ctxGuard = None
                   THEN Some([idx |-> i, kind |-> kind, depth |-> Len(ctxFrames)])
                   ELSE ctxGuard
    /\ ctxFound' = IF i # 0 THEN ctxFound \cup {stack[i].id} ELSE ctxFound
    /\ ctxLast' = CtxOp(kind, T, i, IF i # 0 THEN stack[i].id ELSE 0)

\* get_context::<T> or get_context_mut::<T>; the guard returned is kept if
\* none is held, dropped at once otherwise
CtxLookup ==
    /\ ~ctxPanicked
    /\ ctxLookups < MaxLookups
    /\ ctxLookups' = ctxLookups + 1
    /\ \E T \in CtxTypes :
         \/ CtxLooked("ref", T, get_context(stack, Len(stack), T, ctxGuard))
         \/ CtxLooked("mut", T, get_context_mut(stack, Len(stack), T, ctxGuard))
    /\ UNCHANGED <<stack, ctxFrames, ctxPushed, ctxPanicked, ctxUse>>
    /\ UNCHANGED ctxOthers

CtxUsed(accessor, context, T, r) ==
    /\ ctxUse' = [accessor |-> accessor, type |-> T, outcome |-> r.outcome,
                  msg |-> r.msg, available |-> IsSome(context), before |-> stack]
    /\ ctxPanicked' = (r.outcome = "panic")
    /\ IF IsSome(context)
       THEN CtxLooked(IF accessor \in {"use_context", "try_use_context"}
                      THEN "ref" ELSE "mut", T, r.idx)
       ELSE /\ ctxLast' = CtxOp("use", T, 0, 0)
            /\ UNCHANGED <<ctxGuard, ctxFound>>

\* a hook of the running body calls one of the UseContext accessors; its
\* Hooks carries the stack or no stack
CtxUse ==
    /\ ~ctxPanicked
    /\ ctxLookups < MaxUses
    /\ ctxLookups' = ctxLookups + 1
    /\ \E accessor \in Accessors, context \in {None, Some(stack)}, T \in CtxTypes :
         CtxUsed(accessor, context, T, UseContext(accessor, context, T, ctxGuard))
    /\ UNCHANGED <<stack, ctxFrames, ctxPushed>>
    /\ UNCHANGED ctxOthers

\* Drop of the held Ref or RefMut
CtxDropGuard ==
    /\ ~ctxPanicked
    /\ IsSome(ctxGuard)
    /\ ctxGuard' = None
    /\ ctxLast' = CtxOp("drop", "", 0, 0)
    /\ UNCHANGED <<stack, ctxFrames, ctxPushed, ctxLookups, ctxFound, ctxPanicked, ctxUse>>
    /\ UNCHANGED ctxOthers

CtxReturned(frame) ==
    /\ stack' = WithContextPop(stack, frame.pushed)
    /\ ctxFrames' = SubSeq(ctxFrames, 1, Len(ctxFrames) - 1)
    /\ ctxLast' = [op |-> "return", type |-> "", ret |-> 0,
                   id |-> IF frame.pushed THEN Unwrap(frame.context).id ELSE 0,
                   before |-> frame.before, guard |-> ctxGuard]

\* the body of the innermost with_context returns: the pop.  A guard taken
\* inside the body cannot outlive it.
CtxReturn ==
    /\ ~ctxPanicked
    /\ ctxFrames # <<>>
    /\ IF IsSome(ctxGuard) THEN Unwrap(ctxGuard).depth < Len(ctxFrames) ELSE TRUE
    /\ CtxReturned(ctxFrames[Len(ctxFrames)])
    /\ UNCHANGED <<ctxGuard, ctxPushed, ctxLookups, ctxFound, ctxPanicked, ctxUse>>
    /\ UNCHANGED ctxOthers

CtxUnwound(frame) ==
    /\ ctxFrames' = SubSeq(ctxFrames, 1, Len(ctxFrames) - 1)
    /\ ctxGuard' = IF IsSome(ctxGuard) /\ Unwrap(ctxGuard).depth >= Len(ctxFrames)
                   THEN None ELSE ctxGuard
    /\ ctxLast' = [op |-> "unwind", type |-> "", ret |-> 0,
                   id |-> IF frame.pushed THEN Unwrap(frame.context).id ELSE 0,
                   before |-> frame.before, guard |-> ctxGuard]

\* the body of the innermost with_context panics, or a panic raised further
\* in passes through it: the call to f does not return, so the statement
\* after it, the pop, is not run; the locals of the body are dropped.
CtxUnwind ==
    /\ ctxFrames # <<>>
    /\ ctxPanicked' = TRUE
    /\ CtxUnwound(ctxFrames[Len(ctxFrames)])
    /\ UNCHANGED <<stack, ctxPushed, ctxLookups, ctxFound, ctxUse>>
    /\ UNCHANGED ctxOthers

NextCtx ==
    \/ CtxEnter
    \/ CtxLookup
    \/ CtxDropGuard
    \/ CtxReturn
    \/ CtxUnwind

\* the same bodies, looking values up through the accessors of their Hooks
NextUse ==
    \/ CtxEnter
    \/ CtxUse
    \/ CtxDropGuard
    \/ CtxReturn
    \/ CtxUnwind

(***************************************************************************)
(* props.rs: AnyProps.  raw is the index in prHeap of the value pointed    *)
(* to; drop is Some for the carrier that frees it.                         *)
(***************************************************************************)
\* DropRawImpl::<T>::drop_raw: Box::from_raw(raw) is dropped
drop_raw(heap, raw) == [heap EXCEPT ![raw].releases = @ + 1]

\* AnyProps::owned, on the Box allocated at raw
AnyPropsOwned(raw) == [raw |-> raw, drop |-> Some("DropRawImpl")]

\* AnyProps::borrowed, on the &mut T at raw
AnyPropsBorrowed(raw) == [raw |-> raw, drop |-> None]

\* AnyProps::borrow as a mutant that hands the releaser on
AnyPropsBorrowKeepsDrop(self) == [raw |-> self.raw, drop |-> self.drop]

\* AnyProps::borrow
AnyPropsBorrow(self) == [raw |-> self.raw, drop |-> None]

\* Drop for AnyProps: the heap afterwards
AnyPropsDrop(self, heap) ==
    IF IsSome(self.drop) THEN drop_raw(heap, self.raw) ELSE heap

\* Drop for AnyProps: self.drop.take()
AnyPropsDropTake(self) == [self EXCEPT !.drop = None]

(***************************************************************************)
(* SpecProps: carriers are made by owned, borrowed and borrow, and         *)
(* discarded in any order (borrow returns Self, so the borrow checker      *)
(* does not tie a re-borrowed carrier to the one it was taken from).       *)
(***************************************************************************)
InitProps ==
    /\ prHeap = <<>>
    /\ prCarriers = <<>>
    /\ prLast = [op |-> "none", carrier |-> 0, heap |-> <<>>]

prOthers ==
    <<mmVars, recVars, hkVars, stVars, tmVars, lpVars, swVars, ctxVars, twVars,
      upVars, evVars, shVars, drVars, odVars, psVars, sbVars, spVars>>

PrMade(props, how, heap) ==
    /\ prHeap' = heap
    /\ prCarriers' = Append(prCarriers, [props |-> props, how |-> how, live |-> TRUE])
    /\ prLast' = [op |-> how, carrier |-> Len(prCarriers) + 1, heap |-> prHeap]

\* AnyProps::owned(props): the value is boxed and the carrier owns the box
PrOwned ==
    /\ Len(prCarriers) < MaxCarriers
    /\ Len(prHeap) < MaxProps
    /\ PrMade(AnyPropsOwned(Len(prHeap) + 1), "owned",
              Append(prHeap, [kind |-> "box", releases |-> 0]))
    /\ UNCHANGED prOthers

\* AnyProps::borrowed(&mut props): the value stays the caller's
PrBorrowed ==
    /\ Len(prCarriers) < MaxCarriers
    /\ Len(prHeap) < MaxProps
    /\ PrMade(AnyPropsBorrowed(Len(prHeap) + 1), "borrowed",
              Append(prHeap, [kind |-> "value", releases |-> 0]))
    /\ UNCHANGED prOthers

\* carrier.borrow() on a live carrier
PrBorrow ==
    /\ Len(prCarriers) < MaxCarriers
    /\ \E i \in 1..Len(prCarriers) :
         /\ prCarriers[i].live
         /\ PrMade(AnyPropsBorrow(prCarriers[i].props), "borrow", prHeap)
    /\ UNCHANGED prOthers

\* a live carrier is discarded
PrDrop ==
    /\ \E i \in 1..Len(prCarriers) :
         /\ prCarriers[i].live
         /\ prHeap' = AnyPropsDrop(prCarriers[i].props, prHeap)
         /\ prCarriers' = [prCarriers EXCEPT ![i].live = FALSE,
                                             ![i].props = AnyPropsDropTake(@)]
         /\ prLast' = [op |-> "drop", carrier |-> i, heap |-> prHeap]
    /\ UNCHANGED prOthers

NextProps ==
    \/ PrOwned
    \/ PrBorrowed
    \/ PrBorrow
    \/ PrDrop

(***************************************************************************)
(* component/instantiated_component.rs, hooks/mod.rs: the change-poll of a *)
(* tree of instances.  The tree is instance 1 with the children 2 and 3,   *)
(* and 4 a child of 2; a slot is a use_state hook on a cell or a hook     *)
(* that keeps the default poll_change of the Hook trait.                   *)
(***************************************************************************)
TwInstances == 1..4

TwCellIds == {"a", "b", "c", "d"}

\* InstantiatedComponent.children, in the multimap's iteration order
TwChildren(n) ==
    CASE n = 1 -> <<2, 3>>
      [] n = 2 -> <<4>>
      [] OTHER -> <<>>

\* InstantiatedComponent.hooks, in slot order
TwHooks(n) ==
    CASE n = 1 -> <<[kind |-> "state", cell |-> "a"], [kind |-> "default", cell |-> ""]>>
      [] n = 2 -> <<[kind |-> "state", cell |-> "b"]>>
      [] n = 3 -> <<[kind |-> "default", cell |-> ""], [kind |-> "state", cell |-> "c"]>>
      [] OTHER -> <<[kind |-> "state", cell |-> "d"]>>

\* one slot's poll_change has returned r: the cells, the flag and the record
\* of the sweep afterwards
TwHookPolled(acc, n, i, hook, r) ==
    [cells |-> IF hook.kind = "state"
               THEN [acc.cells EXCEPT ![hook.cell].value = r.value]
               ELSE acc.cells,
     is_ready |-> acc.is_ready \/ r.ret = "ready",
     log |-> Append(acc.log, [instance |-> n, slot |-> i, ret |-> r.ret])]

\* AnyHook::poll_change of one slot: UseStateImpl's, or the trait's default
TwHookPoll(acc, n, i, hook, waker) ==
    TwHookPolled(acc, n, i, hook,
                 IF hook.kind = "state"
                 THEN poll_change(acc.cells[hook.cell].value,
                                  acc.cells[hook.cell].held, waker)
                 ELSE [value |-> <<>>, ret |-> "pending"])

\* Hook for Vec<Box<dyn AnyHook>>::poll_change, from slot i on
RECURSIVE TwHooksPoll(_, _, _, _)
TwHooksPoll(acc, n, i, waker) ==
    IF i > Len(TwHooks(n)) THEN acc
    ELSE TwHooksPoll(TwHookPoll(acc, n, i, TwHooks(n)[i], waker), n, i + 1, waker)

RECURSIVE TwInstancePoll(_, _, _)
RECURSIVE TwComponentsPoll(_, _, _, _)

\* InstantiatedComponent::poll_change once the children have been polled
TwInstancePolled(hooks_status, c) ==
    [c EXCEPT !.is_ready = hooks_status \/ c.is_ready]

\* InstantiatedComponent::poll_change once the hooks have been polled
TwInstanceHooksPolled(h, n, waker) ==
    TwInstancePolled(h.is_ready,
                     TwComponentsPoll([h EXCEPT !.is_ready = FALSE], n, 1, waker))

\* InstantiatedComponent::poll_change
TwInstancePoll(acc, n, waker) ==
    TwInstanceHooksPolled(TwHooksPoll([acc EXCEPT !.is_ready = FALSE], n, 1, waker),
                          n, waker)

\* Components::poll_change once child i has been polled
TwChildPolled(is_ready, c, n, i, waker) ==
    TwComponentsPoll([c EXCEPT !.is_ready = is_ready \/ c.is_ready], n, i + 1, waker)

\* Components::poll_change of the children of n, from child i on
TwComponentsPoll(acc, n, i, waker) ==
    IF i > Len(TwChildren(n)) THEN acc
    ELSE TwChildPolled(acc.is_ready, TwInstancePoll(acc, TwChildren(n)[i], waker),
                       n, i, waker)

(***************************************************************************)
(* SpecTree: sweeps of the tree, writes to its cells, and another task     *)
(* holding a view of a cell.                                               *)
(***************************************************************************)
InitTree ==
    /\ twCells = [c \in TwCellIds |-> [value |-> StateValueNew("v0"), held |-> FALSE]]
    /\ twSweeps = 0
    /\ twWrites = 0
    /\ twLast = [op |-> "none", before |-> twCells, log |-> <<>>, ready |-> FALSE,
                 waker |-> 0]

twOthers ==
    <<mmVars, recVars, hkVars, stVars, tmVars, lpVars, swVars, ctxVars, prVars,
      upVars, evVars, shVars, drVars, odVars, psVars, sbVars, spVars>>

TwSwept(p) ==
    /\ twCells' = p.cells
    /\ twLast' = [op |-> "sweep", before |-> twCells, log |-> p.log,
                  ready |-> p.is_ready, waker |-> twSweeps + 1]

\* the root's poll_change is polled with the waker of the waiting task
TwSweep ==
    /\ twSweeps < MaxTwSweeps
    /\ twSweeps' = twSweeps + 1
    /\ TwSwept(TwInstancePoll([cells |-> twCells, is_ready |-> FALSE, log |-> <<>>],
                              1, twSweeps + 1))
    /\ UNCHANGED twWrites
    /\ UNCHANGED twOthers

\* a view taken by State::write on a free cell is written through and
\* dropped: the cell is dirty and its waker is taken and woken
TwWrite ==
    /\ twWrites < MaxTwWrites
    /\ twWrites' = twWrites + 1
    /\ \E c \in TwCellIds :
         /\ ~twCells[c].held
         /\ twCells' = [twCells EXCEPT ![c].value.is_changed = TRUE,
                                       ![c].value.waker = None]
         /\ twLast' = [op |-> "write", before |-> twCells, log |-> <<>>,
                       ready |-> FALSE, waker |-> 0]
    /\ UNCHANGED twSweeps
    /\ UNCHANGED twOthers

\* another task takes a view of a free cell and keeps it
TwHold ==
    /\ \E c \in TwCellIds :
         /\ ~twCells[c].held
         /\ twCells' = [twCells EXCEPT ![c].held = TRUE]
    /\ twLast' = [op |-> "hold", before |-> twCells, log |-> <<>>, ready |-> FALSE,
                  waker |-> 0]
    /\ UNCHANGED <<twSweeps, twWrites>>
    /\ UNCHANGED twOthers

\* the view is dropped without having been written through
TwRelease ==
    /\ \E c \in TwCellIds :
         /\ twCells[c].held
         /\ twCells' = [twCells EXCEPT ![c].held = FALSE]
    /\ twLast' = [op |-> "release", before |-> twCells, log |-> <<>>, ready |-> FALSE,
                  waker |-> 0]
    /\ UNCHANGED <<twSweeps, twWrites>>
    /\ UNCHANGED twOthers

NextTree ==
    \/ TwSweep
    \/ TwWrite
    \/ TwHold
    \/ TwRelease

(***************************************************************************)
(* component/instantiated_component.rs, hooks/mod.rs, render/updater.rs:   *)
(* the update of the tree with its lifecycle callbacks.  The tree has the  *)
(* shape of TwChildren and TwHooks; a slot counts the calls of its pre    *)
(* and post callback.  render is the set of instances whose element the    *)
(* body of their parent passes to update_children in this update.          *)
(***************************************************************************)
UpAbsent == [alive |-> FALSE, first_update |-> TRUE, hooks |-> <<>>]

\* InstantiatedComponent::new
UpNew == [alive |-> TRUE, first_update |-> TRUE, hooks |-> <<>>]

\* one callback of slot i of instance n
UpCallback(acc, n, i, cb) ==
    [inst |-> [acc.inst EXCEPT ![n].hooks[i][cb] = @ + 1],
     log |-> Append(acc.log, [cb |-> cb, instance |-> n, slot |-> i])]

\* Hook for Vec<Box<dyn AnyHook>>::pre_component_update and
\* post_component_update: the callback of every slot, from slot i on
RECURSIVE UpCallbacks(_, _, _, _)
UpCallbacks(acc, n, i, cb) ==
    IF i > Len(acc.inst[n].hooks) THEN acc
    ELSE UpCallbacks(UpCallback(acc, n, i, cb), n, i + 1, cb)

\* the use_hook calls of the body: the first update stores the slots
UpUseHooks(acc, n) ==
    [inst |-> IF acc.inst[n].first_update
              THEN [acc.inst EXCEPT ![n].hooks =
                      [i \in 1..Len(TwHooks(n)) |->
                          [kind |-> TwHooks(n)[i].kind, pre |-> 0, post |-> 0]]]
              ELSE acc.inst,
     log |-> Append(acc.log, [cb |-> "body", instance |-> n, slot |-> 0])]

\* an instance left in the old multimap is dropped, and its children with it
RECURSIVE UpDrop(_, _)
RECURSIVE UpDropAll(_, _, _)
UpDrop(inst, n) == UpDropAll([inst EXCEPT ![n] = UpAbsent], TwChildren(n), 1)

UpDropAll(inst, children, i) ==
    IF i > Len(children) THEN inst
    ELSE UpDropAll(UpDrop(inst, children[i]), children, i + 1)

RECURSIVE UpInstanceUpdate(_, _, _)
RECURSIVE UpdateChildren(_, _, _, _)

\* update_children: the instance popped for the child, or a new one
UpMatched(acc, c) ==
    [acc EXCEPT !.inst[c] = IF @.alive THEN @ ELSE UpNew]

\* update_children of the instance n, from child i on
UpdateChildren(acc, n, i, render) ==
    IF i > Len(TwChildren(n)) THEN acc
    ELSE IF TwChildren(n)[i] \in render
    THEN UpdateChildren(UpInstanceUpdate(UpMatched(acc, TwChildren(n)[i]),
                                         TwChildren(n)[i], render),
                        n, i + 1, render)
    ELSE UpdateChildren([acc EXCEPT !.inst = UpDrop(@, TwChildren(n)[i])],
                        n, i + 1, render)

\* update_component has returned
UpBodyReturned(acc, n) ==
    [acc EXCEPT !.log = Append(@, [cb |-> "return", instance |-> n, slot |-> 0])]

\* helper.update_component: the body registers its hooks and updates its
\* children
UpBody(acc, n, render) ==
    UpBodyReturned(UpdateChildren(UpUseHooks(acc, n), n, 1, render), n)

\* the end of InstantiatedComponent::update
UpUpdateDone(acc, n) == [acc EXCEPT !.inst[n].first_update = FALSE]

\* InstantiatedComponent::update as a mutant that runs the post-update
\* callbacks before the body
UpInstanceUpdatePostFirst(acc, n, render) ==
    UpUpdateDone(UpBody(UpCallbacks(UpCallbacks(acc, n, 1, "pre"), n, 1, "post"),
                        n, render), n)

\* InstantiatedComponent::update
UpInstanceUpdate(acc, n, render) ==
    UpUpdateDone(UpCallbacks(UpBody(UpCallbacks(acc, n, 1, "pre"), n, render),
                             n, 1, "post"), n)

(***************************************************************************)
(* SpecUpd: updates of the root; each renders some of the children.        *)
(***************************************************************************)
InitUpd ==
    /\ upInst = [n \in TwInstances |-> IF n = 1 THEN UpNew ELSE UpAbsent]
    /\ upUpdates = 0
    /\ upLast = [log |-> <<>>, before |-> upInst, render |-> {}]

upOthers ==
    <<mmVars, recVars, hkVars, stVars, tmVars, lpVars, swVars, ctxVars, prVars,
      twVars, evVars, shVars, drVars, odVars, psVars, sbVars, spVars>>

UpUpdated(r, render) ==
    /\ upInst' = r.inst
    /\ upLast' = [log |-> r.log, before |-> upInst, render |-> render]

\* the render loop updates the root
UpUpdate ==
    /\ upUpdates < MaxUpdates
    /\ upUpdates' = upUpdates + 1
    /\ \E render \in SUBSET (TwInstances \ {1}) :
         UpUpdated(UpInstanceUpdate([inst |-> upInst, log |-> <<>>], 1, render), render)
    /\ UNCHANGED upOthers

NextUpd == UpUpdate

(***************************************************************************)
(* hooks/use_events.rs: the event hooks.  An event is a mouse event at     *)
(* [column, row], a key event or a resize event.                           *)
(***************************************************************************)
MouseEvents == [kind : {"mouse"}, column : 0..MaxCoord, row : 0..MaxCoord]

HookEvents ==
    MouseEvents \cup {[kind |-> "key", column |-> 0, row |-> 0],
                      [kind |-> "resize", column |-> 0, row |-> 0]}

\* Rect::default()
RectDefault == [x |-> 0, y |-> 0, width |-> 0, height |-> 0]

\* the regions a draw hands to the instance
DrawAreas ==
    {[x |-> 1, y |-> 1, width |-> 2, height |-> 1],
     [x |-> 0, y |-> 0, width |-> 3, height |-> 3],
     [x |-> 2, y |-> 0, width |-> 1, height |-> 2],
     [x |-> 1, y |-> 2, width |-> 0, height |-> 1]}

\* use_events / use_local_events followed by post_component_update
UseEventsImplNew(in_component) ==
    [events |-> TerminalEventsInnerNew, component_area |-> RectDefault,
     in_component |-> in_component]

\* the region test of poll_change as a mutant that takes the far edges in
InAreaInclusive(mouse_event, area) ==
    /\ mouse_event.row >= area.y /\ mouse_event.column >= area.x
    /\ mouse_event.row - area.y <= area.height
    /\ mouse_event.column - area.x <= area.width

\* the region test of poll_change on a mouse event
InArea(mouse_event, area) ==
    IF mouse_event.row >= area.y /\ mouse_event.column >= area.x
    THEN /\ mouse_event.row - area.y < area.height
         /\ mouse_event.column - area.x < area.width
    ELSE FALSE

\* poll_change: f is called with the event
Passes(self, event) ==
    IF self.in_component
    THEN IF event.kind = "mouse" THEN InArea(event, self.component_area) ELSE TRUE
    ELSE TRUE

\* UseEventsImpl::poll_change: the loop over the ready events.  taken: the
\* events polled from the queue, passed: the events f was called with.
RECURSIVE EvPollChange(_, _, _, _)
EvPolled(self, r, taken, passed, waker) ==
    IF IsSome(r.ret)
    THEN EvPollChange([self EXCEPT !.events = r.inner],
                      Append(taken, Unwrap(r.ret)),
                      IF Passes(self, Unwrap(r.ret))
                      THEN Append(passed, Unwrap(r.ret)) ELSE passed,
                      waker)
    ELSE [self |-> [self EXCEPT !.events = r.inner], taken |-> taken,
          passed |-> passed, ret |-> "pending"]

EvPollChange(self, taken, passed, waker) ==
    EvPolled(self, poll_next(self.events, waker), taken, passed, waker)

\* UseEventsImpl::pre_component_draw
PreComponentDraw(self, area) == [self EXCEPT !.component_area = area]

(***************************************************************************)
(* SpecEvents: one instance with an event hook; it is drawn, events are    *)
(* dispatched to its queue, and its hook is polled.                        *)
(***************************************************************************)
EvOp(op) == [op |-> op, taken |-> <<>>, passed |-> <<>>, area |-> RectDefault]

InitEvents ==
    /\ evHook = None
    /\ evSent = 0
    /\ evLast = EvOp("none")

evOthers ==
    <<mmVars, recVars, hkVars, stVars, tmVars, lpVars, swVars, ctxVars, prVars,
      twVars, upVars, shVars, drVars, odVars, psVars, sbVars, spVars>>

\* the first update of the instance: its body calls use_events or
\* use_local_events, and post_component_update subscribes the hook
EvRegister ==
    /\ evHook = None
    /\ \E in_component \in BOOLEAN : evHook' = Some(UseEventsImplNew(in_component))
    /\ evLast' = EvOp("register")
    /\ UNCHANGED evSent
    /\ UNCHANGED evOthers

\* a draw of the instance in the region area
EvDraw ==
    /\ IsSome(evHook)
    /\ \E area \in DrawAreas :
         /\ Unwrap(evHook).component_area # area
         /\ evHook' = Some(PreComponentDraw(Unwrap(evHook), area))
    /\ evLast' = EvOp("draw")
    /\ UNCHANGED evSent
    /\ UNCHANGED evOthers

\* the terminal delivers an event to the hook's queue
EvDispatch ==
    /\ IsSome(evHook)
    /\ evSent < MaxEvSent
    /\ evSent' = evSent + 1
    /\ \E event \in HookEvents :
         evHook' = Some([Unwrap(evHook) EXCEPT !.events = Deliver(@, event)])
    /\ evLast' = EvOp("dispatch")
    /\ UNCHANGED evOthers

EvPollDone(p, area) ==
    /\ evHook' = Some(p.self)
    /\ evLast' = [op |-> "poll", taken |-> p.taken, passed |-> p.passed,
                  area |-> area]

\* the change-poll polls the hook
EvPoll ==
    /\ IsSome(evHook)
    /\ Unwrap(evHook).events.pending # <<>>
    /\ EvPollDone(EvPollChange(Unwrap(evHook), <<>>, <<>>, "w"),
                  Unwrap(evHook).component_area)
    /\ UNCHANGED evSent
    /\ UNCHANGED evOthers

NextEvents ==
    \/ EvRegister
    \/ EvDraw
    \/ EvDispatch
    \/ EvPoll

(***************************************************************************)
(* hooks/use_state.rs: the accessors of State.  A State is a copy of the   *)
(* GenerationalBox the slot's UseStateImpl made: the generation of the     *)
(* storage slot at that time.  The box is valid while the slot is in use   *)
(* with that generation; dropping the Owner frees the slot, and a later    *)
(* insert takes it with the next generation.                               *)
(***************************************************************************)
StateAccessors == {"try_read", "read", "try_write", "write"}

\* UseStateImpl::new: the slot after storage.insert(StateValue {..})
SlotInsert(slot, value) ==
    [generation |-> slot.generation + 1, in_use |-> TRUE, value |-> value]

\* the State handle UseStateImpl::new stores, and every copy of it
StateHandle(slot) == [generation |-> slot.generation]

\* Drop of UseStateImpl: _storage, the Owner, is dropped
OwnerDrop(slot) == [slot EXCEPT !.in_use = FALSE]

BoxValid(self, slot) == slot.in_use /\ slot.generation = self.generation

\* self.inner.try_read()
BoxTryRead(self, slot, mut) ==
    IF ~BoxValid(self, slot) THEN "Dropped"
    ELSE IF mut THEN "AlreadyBorrowedMut"
    ELSE "Ok"

\* self.inner.try_write()
BoxTryWrite(self, slot, mut, readers) ==
    IF ~BoxValid(self, slot) THEN "Dropped"
    ELSE IF mut THEN "AlreadyBorrowedMut"
    ELSE IF readers > 0 THEN "AlreadyBorrowed"
    ELSE "Ok"

AccessSome(value) == [outcome |-> "some", value |-> value]

AccessNone == [outcome |-> "none", value |-> ""]

AccessPanic == [outcome |-> "panic", value |-> ""]

\* the loop of try_read goes round again
AccessSpin == [outcome |-> "spin", value |-> ""]

\* Option::expect
AccessExpect(r) == IF r.outcome = "none" THEN AccessPanic ELSE r

\* State::try_read: one turn of its loop
StateTryRead(self, slot, mut, readers) ==
    CASE BoxTryRead(self, slot, mut) = "Ok" -> AccessSome(slot.value)
      [] BoxTryRead(self, slot, mut) = "Dropped" -> AccessNone
      [] OTHER -> IF BoxTryWrite(self, slot, mut, readers) = "Dropped"
                  THEN AccessNone
                  ELSE AccessSpin

\* State::read
StateRead(self, slot, mut, readers) ==
    AccessExpect(StateTryRead(self, slot, mut, readers))

\* State::try_write as a mutant that unwraps the result of the box
StateTryWriteUnwrap(self, slot, mut, readers) ==
    IF BoxTryWrite(self, slot, mut, readers) = "Ok"
    THEN AccessSome(slot.value)
    ELSE AccessPanic

\* State::try_write: self.inner.try_write().map(..).ok()
StateTryWrite(self, slot, mut, readers) ==
    IF BoxTryWrite(self, slot, mut, readers) = "Ok"
    THEN AccessSome(slot.value)
    ELSE AccessNone

\* State::write
StateWrite(self, slot, mut, readers) ==
    AccessExpect(StateTryWrite(self, slot, mut, readers))

StateAccess(accessor, self, slot, mut, readers) ==
    CASE accessor = "try_read" -> StateTryRead(self, slot, mut, readers)
      [] accessor = "read" -> StateRead(self, slot, mut, readers)
      [] accessor = "try_write" -> StateTryWrite(self, slot, mut, readers)
      [] accessor = "write" -> StateWrite(self, slot, mut, readers)

(***************************************************************************)
(* SpecHandle: copies of the handle of one cell are used while its owner   *)
(* lives, after it was dropped, and after the slot was taken again.        *)
(***************************************************************************)
\* the handle the copies were made from
ShHandle == StateHandle(SlotInsert([generation |-> 0], "v0"))

ShOp(op, handle, r) ==
    [op |-> op, handle |-> handle, outcome |-> r.outcome, value |-> r.value,
     slot |-> shSlot, mut |-> shMut, readers |-> shReaders]

InitHandle ==
    /\ shSlot = SlotInsert([generation |-> 0], "v0")
    /\ shMut = FALSE
    /\ shReaders = 0
    /\ shAccesses = 0
    /\ shAfterDrop = {}
    /\ shLast = [op |-> "none", handle |-> 0, outcome |-> "", value |-> "",
                 slot |-> SlotInsert([generation |-> 0], "v0"), mut |-> FALSE,
                 readers |-> 0]

shOthers ==
    <<mmVars, recVars, hkVars, stVars, tmVars, lpVars, swVars, ctxVars, prVars,
      twVars, upVars, evVars, drVars, odVars, psVars, sbVars, spVars>>

ShAccessed(accessor, handle, r) ==
    /\ shMut' = (shMut \/ (r.outcome = "some" /\ accessor \in {"try_write", "write"}))
    /\ shReaders' = IF r.outcome = "some" /\ accessor \in {"try_read", "read"}
                    THEN shReaders + 1 ELSE shReaders
    /\ shAfterDrop' = IF BoxValid(ShHandle, shSlot) THEN shAfterDrop
                      ELSE shAfterDrop \cup
                             {[handle |-> handle, accessor |-> accessor,
                               outcome |-> r.outcome, value |-> r.value]}
    /\ shLast' = ShOp(accessor, handle, r)

\* an accessor is called on a copy of the handle; a try_read or read that
\* meets a mutable view goes round its loop until the view is dropped
ShAccess ==
    /\ shAccesses < MaxAccesses
    /\ shAccesses' = shAccesses + 1
    /\ \E accessor \in StateAccessors, handle \in 1..MaxHandles :
         /\ StateAccess(accessor, ShHandle, shSlot, shMut, shReaders).outcome # "spin"
         /\ ShAccessed(accessor, handle,
                       StateAccess(accessor, ShHandle, shSlot, shMut, shReaders))
    /\ UNCHANGED shSlot
    /\ UNCHANGED shOthers

\* a view is dropped
ShDropView ==
    /\ shMut \/ shReaders > 0
    /\ \/ shMut /\ shMut' = FALSE /\ UNCHANGED shReaders
       \/ shReaders > 0 /\ shReaders' = shReaders - 1 /\ UNCHANGED shMut
    /\ shLast' = [shLast EXCEPT !.op = "drop_view"]
    /\ UNCHANGED <<shSlot, shAccesses, shAfterDrop>>
    /\ UNCHANGED shOthers

\* the instance owning the cell is destroyed: its UseStateImpl is dropped
ShDropOwner ==
    /\ BoxValid(ShHandle, shSlot)
    /\ ~shMut /\ shReaders = 0
    /\ shSlot' = OwnerDrop(shSlot)
    /\ shLast' = [shLast EXCEPT !.op = "drop_owner"]
    /\ UNCHANGED <<shMut, shReaders, shAccesses, shAfterDrop>>
    /\ UNCHANGED shOthers

\* another use_state takes the freed slot for its cell
ShReuse ==
    /\ ~shSlot.in_use
    /\ shSlot' = SlotInsert(shSlot, "v1")
    /\ shLast' = [shLast EXCEPT !.op = "reuse"]
    /\ UNCHANGED <<shMut, shReaders, shAccesses, shAfterDrop>>
    /\ UNCHANGED shOthers

NextHandle ==
    \/ ShAccess
    \/ ShDropView
    \/ ShDropOwner
    \/ ShReuse

(***************************************************************************)
(* component/instantiated_component.rs: draw.  The tree is the one of      *)
(* SpecTree (TwChildren, TwHooks); regions are [x, y, width, height].      *)
(***************************************************************************)
Rect(x, y, width, height) == [x |-> x, y |-> y, width |-> width, height |-> height]

\* The layout styles an update may set: [flex_direction, offset, margin].
DrStyles ==
    {[flex_direction |-> "Horizontal", offset |-> 0, margin |-> 0],
     [flex_direction |-> "Vertical", offset |-> 1, margin |-> 0],
     [flex_direction |-> "Horizontal", offset |-> 0, margin |-> 1]}

\* LayoutStyle::default()
LayoutStyleDefault == [flex_direction |-> "Horizontal", offset |-> 0, margin |-> 0]

\* The regions a frame may have.
DrFrames == {Rect(0, 0, 8, 4), Rect(0, 0, 3, 2)}

\* Rect::offset by Offset { x: o, y: o }
RectOffset(area, o) == [area EXCEPT !.x = @ + o, !.y = @ + o]

\* Rect::inner by Margin { horizontal: m, vertical: m }: the empty region
\* when the margins do not fit
RectInner(area, m) ==
    IF area.width < 2 * m \/ area.height < 2 * m THEN Rect(0, 0, 0, 0)
    ELSE Rect(area.x + m, area.y + m, area.width - 2 * m, area.height - 2 * m)

\* LayoutStyle::inner_area
inner_area(self, area) == RectInner(RectOffset(area, self.offset), self.margin)

\* Layout::split of a region among k equal constraints along a direction
LayoutSplit(direction, area, k) ==
    [i \in 1..k |->
        IF direction = "Horizontal"
        THEN Rect(area.x + (i - 1) * (area.width \div k), area.y,
                  area.width \div k, area.height)
        ELSE Rect(area.x, area.y + (i - 1) * (area.height \div k),
                  area.width, area.height \div k)]

\* Component::calc_children_areas (the trait's default): one region per
\* child along flex_direction; the second split, across it, has a single
\* constraint and keeps the region.
calc_children_areas(children, layout_style, area) ==
    LayoutSplit(layout_style.flex_direction, area, Len(children))

\* ComponentDrawer::new
ComponentDrawerNew(area) == [area |-> area, log |-> <<>>]

\* one step of the pass, recorded with the drawer's region at that moment
DrStep(d, step, n, slot) ==
    [d EXCEPT !.log = Append(@, [step |-> step, instance |-> n, slot |-> slot,
                                 area |-> d.area])]

\* drawer.area = area
DrSetArea(d, area) == [d EXCEPT !.area = area]

\* Hook for Vec<Box<dyn AnyHook>>::pre_component_draw / post_component_draw,
\* from slot i on
RECURSIVE DrHooks(_, _, _, _)
DrHooks(d, n, i, step) ==
    IF i > Len(TwHooks(n)) THEN d
    ELSE DrHooks(DrStep(d, step, n, i), n, i + 1, step)

RECURSIVE InstanceDraw(_, _, _)
RECURSIVE ChildrenDraw(_, _, _, _, _)

\* lines 58-66: the regions of the children, then the children
ChildrenDrawAll(d, n, styles) ==
    ChildrenDraw(d, n, 1, calc_children_areas(TwChildren(n), styles[n], d.area),
                 styles)

\* InstantiatedComponent::draw, as a mutant that runs the post-draw
\* callbacks before the children are drawn.
InstanceDrawPostFirst(d, n, styles) ==
    ChildrenDrawAll(
        DrHooks(DrStep(DrHooks(DrStep(DrSetArea(d, inner_area(styles[n], d.area)),
                                      "area", n, 0),
                               n, 1, "pre"),
                       "draw", n, 0),
                n, 1, "post"),
        n, styles)

\* InstantiatedComponent::draw
InstanceDraw(d, n, styles) ==
    DrHooks(ChildrenDrawAll(
                DrStep(DrHooks(DrStep(DrSetArea(d, inner_area(styles[n], d.area)),
                                      "area", n, 0),
                               n, 1, "pre"),
                       "draw", n, 0),
                n, styles),
            n, 1, "post")

\* for (child, child_area) in self.children.iter_mut().zip(children_areas)
ChildrenDraw(d, n, i, areas, styles) ==
    IF i > Len(TwChildren(n)) \/ i > Len(areas) THEN d
    ELSE ChildrenDraw(InstanceDraw(DrStep(DrSetArea(d, areas[i]), "child",
                                          TwChildren(n)[i], 0),
                                   TwChildren(n)[i], styles),
                      n, i + 1, areas, styles)

(***************************************************************************)
(* SpecDraw: draw passes of the tree, with updates that set the layout     *)
(* style of an instance in between.                                        *)
(***************************************************************************)
InitDraw ==
    /\ drStyles = [n \in TwInstances |-> LayoutStyleDefault]
    /\ drIn = Rect(0, 0, 0, 0)
    /\ drDraws = 0
    /\ drLog = <<>>
    /\ drAt = [n \in TwInstances |-> LayoutStyleDefault]

drOthers ==
    <<mmVars, recVars, hkVars, stVars, tmVars, lpVars, swVars, ctxVars, prVars,
      twVars, upVars, evVars, shVars, odVars, psVars, sbVars, spVars>>

\* ComponentUpdater::set_layout_style during an update of instance n
DrSetLayoutStyle ==
    /\ \E n \in TwInstances, layout_style \in DrStyles :
         drStyles' = [drStyles EXCEPT ![n] = layout_style]
    /\ UNCHANGED <<drIn, drDraws, drLog, drAt>>
    /\ UNCHANGED drOthers

\* Tree::render: terminal.draw(|frame| root_component.draw(&mut drawer))
DrDraw ==
    /\ drDraws < MaxDraws
    /\ \E area \in DrFrames :
         /\ drIn' = area
         /\ drLog' = InstanceDraw(ComponentDrawerNew(area), 1, drStyles).log
    /\ drDraws' = drDraws + 1
    /\ drAt' = drStyles
    /\ UNCHANGED drStyles
    /\ UNCHANGED drOthers

NextDraw == DrSetLayoutStyle \/ DrDraw

(***************************************************************************)
(* SpecOrder: the change-poll of an instance with a use_state and a        *)
(* use_events slot in either order, slot by slot, while events are         *)
(* dispatched and another task takes and drops read views of the cell.     *)
(***************************************************************************)
SlotOrders == {<<"state", "events">>, <<"events", "state">>}

\* what a sweep has done: the result of the state slot's poll ("none"
\* before it), whether a callback wrote the cell, whether that write woke
\* the waiter, whether a view was held at one of the polls
SweepRecord(n, order) ==
    [n |-> n, order |-> order, state |-> "none", is_ready |-> FALSE,
     mutated |-> FALSE, woke |-> FALSE, held |-> FALSE]

InitOrder ==
    /\ odSlots = <<>>
    /\ odCell = StateValueNew("v0")
    /\ odQueue = TerminalEventsInnerNew
    /\ odHeld = FALSE
    /\ odPos = 0
    /\ odWoken = FALSE
    /\ odSweeps = 0
    /\ odSent = 0
    /\ odCur = SweepRecord(0, <<>>)
    /\ odLast = SweepRecord(0, <<>>)
    /\ odPrev = SweepRecord(0, <<>>)

odOthers ==
    <<mmVars, recVars, hkVars, stVars, tmVars, lpVars, swVars, ctxVars, prVars,
      twVars, upVars, evVars, shVars, drVars, psVars, sbVars, spVars>>

\* The first update of the instance: its body registers the two hooks.
OdUpdate ==
    /\ odSlots = <<>>
    /\ \E order \in SlotOrders : odSlots' = order
    /\ UNCHANGED <<odCell, odQueue, odHeld, odPos, odWoken, odSweeps, odSent,
                   odCur, odLast, odPrev>>
    /\ UNCHANGED odOthers

\* Terminal::wait hands an event to the queue
OdDispatch ==
    /\ odSlots # <<>>
    /\ odSent < MaxOdSent
    /\ odSent' = odSent + 1
    /\ \E event \in CounterEvents(odSent + 1) : odQueue' = Deliver(odQueue, event)
    /\ odWoken' = (odWoken \/ IsSome(odQueue.waker))
    /\ UNCHANGED <<odSlots, odCell, odHeld, odPos, odSweeps, odCur, odLast, odPrev>>
    /\ UNCHANGED odOthers

\* Another task takes a read view of the cell (State::try_read)
OdHold ==
    /\ odSlots # <<>>
    /\ ~odHeld
    /\ odHeld' = TRUE
    /\ UNCHANGED <<odSlots, odCell, odQueue, odPos, odWoken, odSweeps, odSent,
                   odCur, odLast, odPrev>>
    /\ UNCHANGED odOthers

\* That task drops the view (StateRef has no Drop of its own)
OdRelease ==
    /\ odHeld
    /\ odHeld' = FALSE
    /\ UNCHANGED <<odSlots, odCell, odQueue, odPos, odWoken, odSweeps, odSent,
                   odCur, odLast, odPrev>>
    /\ UNCHANGED odOthers

\* The loop's task is polled: never polled yet, resumed after a ready sweep
\* (update, draw, wait again), or woken.
OdSweepBegin ==
    /\ odSlots # <<>>
    /\ odPos = 0
    /\ odSweeps < MaxOdSweeps
    /\ odSweeps = 0 \/ odLast.is_ready \/ odWoken
    /\ odPos' = 1
    /\ odWoken' = FALSE
    /\ odSweeps' = odSweeps + 1
    /\ odCur' = SweepRecord(odSweeps + 1, odSlots)
    /\ UNCHANGED <<odSlots, odCell, odQueue, odHeld, odSent, odLast, odPrev>>
    /\ UNCHANGED odOthers

\* the cursor after a slot's poll; the sweep is complete after the last slot
OdAdvance(cur) ==
    /\ odPos' = IF odPos = Len(odSlots) THEN 0 ELSE odPos + 1
    /\ odCur' = cur
    /\ odLast' = IF odPos = Len(odSlots) THEN cur ELSE odLast
    /\ odPrev' = IF odPos = Len(odSlots) THEN odLast ELSE odPrev

OdStatePolled(r) ==
    /\ odCell' = r.value
    /\ OdAdvance([odCur EXCEPT !.state = r.ret,
                               !.is_ready = @ \/ r.ret = "ready",
                               !.held = @ \/ odHeld])
    /\ UNCHANGED <<odQueue, odWoken>>

OdEventsPolled(r, mutated) ==
    /\ odCell' = r.cell
    /\ odQueue' = r.inner
    /\ odWoken' = (odWoken \/ (mutated /\ IsSome(odCell.waker)))
    /\ OdAdvance([odCur EXCEPT !.is_ready = @ \/ r.ret = "ready",
                               !.mutated = @ \/ mutated,
                               !.woke = @ \/ (mutated /\ IsSome(odCell.waker)),
                               !.held = @ \/ odHeld])

OdEventsPoll(r) ==
    OdEventsPolled(r, ~odHeld /\ \E i \in 1..Len(r.handled) : r.handled[i].code = "up")

\* Hook for Vec<Box<dyn AnyHook>>::poll_change: the poll of the next slot
OdPollSlot ==
    /\ odPos > 0
    /\ IF odSlots[odPos] = "state"
       THEN OdStatePolled(poll_change(odCell, odHeld, "loop"))
       ELSE OdEventsPoll(UseEventsPoll(odQueue, odCell, <<>>, odHeld, "loop"))
    /\ UNCHANGED <<odSlots, odHeld, odSweeps, odSent>>
    /\ UNCHANGED odOthers

NextOrder ==
    \/ OdUpdate
    \/ OdDispatch
    \/ OdHold
    \/ OdRelease
    \/ OdSweepBegin
    \/ OdPollSlot

(***************************************************************************)
(* render/updater.rs, element/any_element.rs: update_children with the     *)
(* descriptors' properties.  A descriptor is [key, type, props], props the *)
(* carrier that owns the value at heap[props.raw]; an instance is          *)
(* [id, key, component, made_from, updates].                               *)
(***************************************************************************)
\* the property value of descriptor j of pass n: no two descriptors share one
PsValue(n, j) == 10 * n + j

\* ElementExt::props_mut, as a mutant that hands the descriptor's own
\* carrier out, releaser included.
props_mut_owned(self) == self.props

\* ElementExt::props_mut for AnyElement: self.props.borrow()
props_mut(self) == AnyPropsBorrow(self.props)

\* one step of the pass, with the value the carrier points to and how often
\* it has been released by then
PsStep(acc, op, j, id, carrier) ==
    [acc EXCEPT !.log = Append(@, [op |-> op, j |-> j, id |-> id,
                                   value |-> acc.heap[carrier.raw].value,
                                   releases |-> acc.heap[carrier.raw].releases])]

\* a carrier goes out of scope
PsDrop(acc, carrier) == [acc EXCEPT !.heap = AnyPropsDrop(carrier, @)]

\* InstantiatedComponent::new(key, props, helper): new_component reads the
\* value through props.borrow(); both carriers end with the call.
PsNew(acc, j, id, child, props) ==
    [PsDrop(PsDrop(PsStep(acc, "new", j, id, AnyPropsBorrow(props)),
                   AnyPropsBorrow(props)),
            props)
     EXCEPT !.component = [id |-> id, key |-> child.key, component |-> child.type,
                           made_from |-> acc.heap[props.raw].value,
                           updates |-> <<>>],
            !.live = @ \cup {id}]

\* lines 78-91: the popped instance, or a new one
PsMatched(acc, j, child, popped) ==
    IF Reusable(popped, child)
    THEN [PsStep(acc, "reuse", j, Unwrap(popped).id, child.props)
          EXCEPT !.component = Unwrap(popped)]
    ELSE PsNew(acc, j, FreshId(acc.live), child, props_mut(child))

\* component.update(child.props_mut(), ..): the component reads the value;
\* the carrier ends with the call
PsUpdate(acc, j, props) ==
    [PsDrop(PsStep(acc, "update", j, acc.component.id, props), props)
     EXCEPT !.component.updates = Append(@, acc.heap[props.raw].value)]

\* used_compoent.push_back(..), and the descriptor goes out of scope at the
\* end of the loop body
PsStored(acc, j, child) ==
    [PsDrop(PsStep(acc, "store", j, acc.component.id, child.props), child.props)
     EXCEPT !.used = push_back(@, child.key, acc.component)]

\* The loop of update_children from descriptor j on.
RECURSIVE PsLoop(_, _, _)
PsPopped(acc, children, j, p) ==
    PsLoop(PsStored(PsUpdate(PsMatched([acc EXCEPT !.old = p.mm], j, children[j], p.ret),
                             j, props_mut(children[j])),
                    j, children[j]),
           children, j + 1)

PsLoop(acc, children, j) ==
    IF j > Len(children) THEN acc
    ELSE PsPopped(acc, children, j, pop_front(acc.old, children[j].key))

\* ComponentUpdater::update_children on descriptors whose values are in heap
PsUpdateChildren(self, children, heap) ==
    PsLoop([old |-> self, used |-> MultimapDefault, heap |-> heap, log |-> <<>>,
            live |-> Ids(MultimapIter(self)),
            component |-> [id |-> 0, key |-> "", component |-> "",
                           made_from |-> 0, updates |-> <<>>]],
           children, 1)

(***************************************************************************)
(* SpecPass: passes of update_children over one node, each with owned      *)
(* descriptors.                                                            *)
(***************************************************************************)
InitPass ==
    /\ psComponents = MultimapDefault
    /\ psChildren = <<>>
    /\ psHeap = <<>>
    /\ psLog = <<>>
    /\ psPasses = 0

psOthers ==
    <<mmVars, recVars, hkVars, stVars, tmVars, lpVars, swVars, ctxVars, prVars,
      twVars, upVars, evVars, shVars, drVars, odVars, sbVars, spVars>>

\* the descriptors of a pass: element j owns the value boxed at j
PsElements(children, n) ==
    [j \in 1..Len(children) |->
        [key |-> children[j].key, type |-> children[j].type,
         props |-> AnyPropsOwned(j), value |-> PsValue(n, j)]]

PsPassed(children, r) ==
    /\ psComponents' = Renumber(ReplaceComponents(r.old, r.used))
    /\ psChildren' = children
    /\ psHeap' = r.heap
    /\ psLog' = r.log

PsPass ==
    /\ psPasses < MaxPasses
    /\ psPasses' = psPasses + 1
    /\ \E children \in SeqsUpTo(Descriptors, MaxPsChildren) :
         PsPassed(PsElements(children, psPasses + 1),
                  PsUpdateChildren(psComponents, PsElements(children, psPasses + 1),
                      [j \in 1..Len(children) |->
                          [value |-> PsValue(psPasses + 1, j), releases |-> 0]]))
    /\ UNCHANGED psOthers

NextPass == PsPass

(***************************************************************************)
(* hooks/use_events.rs: the event hook's queue and callback over the       *)
(* updates of its instance.  A callback is named by the update that        *)
(* installed it; a queue by its position in the order of creation.         *)
(***************************************************************************)
\* UseEvents::use_events: use_hook(|| UseEventsImpl { events: None, f: None,
\* .. }) stores the slot on the first update; then h.f = Some(Box::new(f))
use_events(slot, f) ==
    IF slot = None THEN Some([f |-> Some(f), events |-> None])
    ELSE Some([Unwrap(slot) EXCEPT !.f = Some(f)])

\* post_component_update, as a mutant that subscribes on every update.
post_component_update_always(self, id) == [self EXCEPT !.events = Some(id)]

\* UseEventsImpl::post_component_update; id names the queue that
\* updater.terminal().events() would create
post_component_update(self, id) ==
    IF self.events = None THEN [self EXCEPT !.events = Some(id)] ELSE self

\* UseEventsImpl::poll_change of a global hook, as a mutant that polls the
\* queue once.
SbPollChangeOnce(self, inner, waker) ==
    IF self.events = None
    THEN [inner |-> inner, taken |-> <<>>, ret |-> "pending"]
    ELSE [inner |-> [inner EXCEPT ![Unwrap(self.events)] =
                        poll_next(@, waker).inner],
          taken |-> poll_next(inner[Unwrap(self.events)], waker).ret,
          ret |-> "pending"]

\* UseEventsImpl::poll_change of a global hook: nothing to poll while
\* events is None; otherwise the loop over the queue
SbPollChange(self, inner, waker) ==
    IF self.events = None
    THEN [inner |-> inner, taken |-> <<>>, ret |-> "pending"]
    ELSE LET p == EvPollChange([events |-> inner[Unwrap(self.events)],
                                component_area |-> RectDefault,
                                in_component |-> FALSE], <<>>, <<>>, waker)
         IN  [inner |-> [inner EXCEPT ![Unwrap(self.events)] = p.self.events],
              taken |-> p.passed, ret |-> p.ret]

(***************************************************************************)
(* SpecSubscribe: updates of the instance, events dispatched by            *)
(* Terminal::wait, and change-polls of the hook.                           *)
(***************************************************************************)
SbOp(op) == [op |-> op, met |-> <<>>, taken |-> <<>>, ret |-> "", waker |-> 0]

InitSubscribe ==
    /\ sbHook = None
    /\ sbSubscribers = <<>>
    /\ sbInner = <<>>
    /\ sbAlive = {}
    /\ sbUpdates = 0
    /\ sbSent = 0
    /\ sbPolls = 0
    /\ sbHandled = <<>>
    /\ sbLast = SbOp("none")

sbOthers ==
    <<mmVars, recVars, hkVars, stVars, tmVars, lpVars, swVars, ctxVars, prVars,
      twVars, upVars, evVars, shVars, drVars, odVars, psVars, spVars>>

\* the hook after the update, with the queue it held before
SbUpdated(before, self) ==
    /\ sbHook' = Some(self)
    /\ IF self.events # before
       THEN /\ sbSubscribers' = SubscribersPush(sbSubscribers, Unwrap(self.events))
            /\ sbInner' = Append(sbInner, TerminalEventsInnerNew)
            /\ sbAlive' = (sbAlive \ {before[i] : i \in 1..Len(before)})
                             \cup {Unwrap(self.events)}
       ELSE UNCHANGED <<sbSubscribers, sbInner, sbAlive>>

\* InstantiatedComponent::update: the body calls use_events, then the
\* post-update callbacks run
SbUpdate ==
    /\ sbUpdates < MaxSbUpdates
    /\ sbUpdates' = sbUpdates + 1
    /\ SbUpdated(IF sbHook = None THEN None ELSE Unwrap(sbHook).events,
                 post_component_update(Unwrap(use_events(sbHook, sbUpdates + 1)),
                                       Len(sbInner) + 1))
    /\ sbLast' = SbOp("update")
    /\ UNCHANGED <<sbSent, sbPolls, sbHandled>>
    /\ UNCHANGED sbOthers

SbRetained(r) ==
    /\ sbSubscribers' = r.subscribers
    /\ sbInner' = r.inner

\* Terminal::wait reads an event that is not Ctrl+C and hands it to the
\* subscribers
SbDispatch ==
    /\ sbSent < MaxSbSent
    /\ sbSent' = sbSent + 1
    /\ SbRetained(Retain(sbSubscribers, 1, sbAlive, sbSent + 1,
                         [subscribers |-> <<>>, inner |-> sbInner, woken |-> <<>>]))
    /\ sbLast' = SbOp("dispatch")
    /\ UNCHANGED <<sbHook, sbAlive, sbUpdates, sbPolls, sbHandled>>
    /\ UNCHANGED sbOthers

SbPolled(self, r, waker) ==
    /\ sbInner' = r.inner
    /\ sbHandled' = sbHandled \o
                       [i \in 1..Len(r.taken) |-> [event |-> r.taken[i], f |-> self.f]]
    /\ sbLast' = [op |-> "poll",
                  met |-> IF self.events = None THEN <<>>
                          ELSE sbInner[Unwrap(self.events)].pending,
                  taken |-> r.taken, ret |-> r.ret, waker |-> waker]

\* the change-poll polls the hook
SbPoll ==
    /\ sbHook # None
    /\ sbPolls < MaxSbPolls
    /\ sbPolls' = sbPolls + 1
    /\ SbPolled(Unwrap(sbHook), SbPollChange(Unwrap(sbHook), sbInner, sbPolls + 1),
                sbPolls + 1)
    /\ UNCHANGED <<sbHook, sbSubscribers, sbAlive, sbUpdates, sbSent>>
    /\ UNCHANGED sbOthers

NextSubscribe == SbUpdate \/ SbDispatch \/ SbPoll

(***************************************************************************)
(* SpecSpin: one call of State::try_read at a time, taken one call of the  *)
(* box at a time, while other holders of the handle take and release the   *)
(* exclusive view, views are dropped and the owner is dropped.             *)
(***************************************************************************)
\* try_read: the outer match, on self.inner.try_read()
TryReadMatch(r) ==
    CASE r = "Ok" -> "some"
      [] r = "Dropped" -> "none"
      [] OTHER -> "try_write"

\* the inner match as a mutant that gives up unless the box is free
TryReadRetryGiveUp(w) ==
    IF w = "Ok" THEN "continue" ELSE "none"

\* try_read: the inner match, on self.inner.try_write()
TryReadRetry(w) ==
    IF w = "Dropped" THEN "none" ELSE "continue"

SpHandle == StateHandle(SlotInsert([generation |-> 0], "v0"))

SpOp(op, outcome) ==
    [op |-> op, outcome |-> outcome, valid |-> BoxValid(SpHandle, spSlot),
     mut |-> spMut, turns |-> spTurns]

InitSpin ==
    /\ spSlot = SlotInsert([generation |-> 0], "v0")
    /\ spMut = FALSE
    /\ spHolder = "none"
    /\ spReaders = 0
    /\ spPc = "idle"
    /\ spTurns = 0
    /\ spLast = [op |-> "none", outcome |-> "", valid |-> TRUE, mut |-> FALSE,
                 turns |-> 0]

spOthers ==
    <<mmVars, recVars, hkVars, stVars, tmVars, lpVars, swVars, ctxVars, prVars,
      twVars, upVars, evVars, shVars, drVars, odVars, psVars, sbVars>>

\* State::try_read is called
SpCall ==
    /\ spPc = "idle"
    /\ spReaders < MaxSpViews
    /\ spPc' = "try_read"
    /\ spTurns' = 0
    /\ spLast' = SpOp("call", "")
    /\ UNCHANGED <<spSlot, spMut, spHolder, spReaders>>
    /\ UNCHANGED spOthers

SpReturned(outcome) ==
    /\ spPc' = "idle"
    /\ spReaders' = IF outcome = "some" THEN spReaders + 1 ELSE spReaders
    /\ spLast' = SpOp("return", outcome)
    /\ UNCHANGED spTurns

\* loop { match self.inner.try_read() {
SpTryRead ==
    /\ spPc = "try_read"
    /\ IF TryReadMatch(BoxTryRead(SpHandle, spSlot, spMut)) = "try_write"
       THEN /\ spPc' = "try_write"
            /\ spLast' = SpOp("try_read", "try_write")
            /\ UNCHANGED <<spReaders, spTurns>>
       ELSE SpReturned(TryReadMatch(BoxTryRead(SpHandle, spSlot, spMut)))
    /\ UNCHANGED <<spSlot, spMut, spHolder>>
    /\ UNCHANGED spOthers

\* Err(BorrowError::AlreadyBorrowedMut(_)) => match self.inner.try_write() {
\* a view the box hands out here is dropped at once
SpTryWrite ==
    /\ spPc = "try_write"
    /\ IF TryReadRetry(BoxTryWrite(SpHandle, spSlot, spMut, spReaders)) = "continue"
       THEN /\ spPc' = "try_read"
            /\ spTurns' = IF spTurns < MaxSpTurns THEN spTurns + 1 ELSE spTurns
            /\ spLast' = [SpOp("continue", "") EXCEPT !.mut = spLast.mut]
            /\ UNCHANGED spReaders
       ELSE SpReturned("none")
    /\ UNCHANGED <<spSlot, spMut, spHolder>>
    /\ UNCHANGED spOthers

\* a holder of the handle takes the exclusive view: the calling task can only
\* do so outside its call of try_read
SpTake ==
    /\ BoxTryWrite(SpHandle, spSlot, spMut, spReaders) = "Ok"
    /\ \E holder \in {"self", "other"} :
         /\ holder = "self" => spPc = "idle"
         /\ spHolder' = holder
    /\ spMut' = TRUE
    /\ spLast' = [spLast EXCEPT !.op = "take"]
    /\ UNCHANGED <<spSlot, spReaders, spPc, spTurns>>
    /\ UNCHANGED spOthers

\* Drop of the StateMutRef: the calling task cannot reach it inside try_read
SpRelease ==
    /\ spMut
    /\ spHolder = "self" => spPc = "idle"
    /\ spMut' = FALSE
    /\ spHolder' = "none"
    /\ spLast' = [spLast EXCEPT !.op = "release"]
    /\ UNCHANGED <<spSlot, spReaders, spPc, spTurns>>
    /\ UNCHANGED spOthers

\* Drop of a StateRef
SpDropView ==
    /\ spReaders > 0
    /\ spReaders' = spReaders - 1
    /\ spLast' = [spLast EXCEPT !.op = "drop_view"]
    /\ UNCHANGED <<spSlot, spMut, spHolder, spPc, spTurns>>
    /\ UNCHANGED spOthers

\* the instance owning the cell is destroyed: its UseStateImpl is dropped
SpDropOwner ==
    /\ BoxValid(SpHandle, spSlot)
    /\ ~spMut /\ spReaders = 0
    /\ spSlot' = OwnerDrop(spSlot)
    /\ spLast' = [spLast EXCEPT !.op = "drop_owner"]
    /\ UNCHANGED <<spMut, spHolder, spReaders, spPc, spTurns>>
    /\ UNCHANGED spOthers

\* another use_state takes the freed slot for its cell
SpReuse ==
    /\ ~spSlot.in_use
    /\ spSlot.generation < MaxSpGen
    /\ spSlot' = SlotInsert(spSlot, "v1")
    /\ spLast' = [spLast EXCEPT !.op = "reuse"]
    /\ UNCHANGED <<spMut, spHolder, spReaders, spPc, spTurns>>
    /\ UNCHANGED spOthers

NextSpin ==
    \/ SpCall \/ SpTryRead \/ SpTryWrite \/ SpTake \/ SpRelease \/ SpDropView
    \/ SpDropOwner \/ SpReuse

Init ==
    InitMM /\ InitRec /\ InitHooks /\ InitState /\ InitTerm /\ InitLoop /\ InitSweep
    /\ InitCtx /\ InitProps /\ InitTree /\ InitUpd /\ InitEvents /\ InitHandle /\ InitDraw /\ InitOrder /\ InitPass /\ InitSubscribe /\ InitSpin

SpecMM == Init /\ [][NextMM]_vars

SpecRec == Init /\ [][NextRec]_vars

SpecHooks == Init /\ [][NextHooks]_vars

SpecState == Init /\ [][NextState]_vars

SpecTerm == Init /\ [][NextTerm]_vars

SpecLoop == Init /\ [][NextLoop]_vars

SpecSweep == Init /\ [][NextSweep]_vars

SpecCtx == Init /\ [][NextCtx]_vars

SpecUse == Init /\ [][NextUse]_vars

SpecProps == Init /\ [][NextProps]_vars

SpecTree == Init /\ [][NextTree]_vars

SpecUpd == Init /\ [][NextUpd]_vars

SpecEvents == Init /\ [][NextEvents]_vars

SpecHandle == Init /\ [][NextHandle]_vars

SpecDraw == Init /\ [][NextDraw]_vars

SpecSubscribe == Init /\ [][NextSubscribe]_vars

SpecPass == Init /\ [][NextPass]_vars

SpecOrder == Init /\ [][NextOrder]_vars

SpecSpin == Init /\ [][NextSpin]_vars

\* The thread inside try_read keeps running: each call of the box returns and
\* the match on its result is taken.
SpecSpinLive == SpecSpin /\ WF_vars(SpTryRead) /\ WF_vars(SpTryWrite)

\* The executor polls the loop's task again once it has been woken, and polls
\* it first when the select is reached.
SpecLoopLive == SpecLoop /\ WF_vars(LpSelect)

(***************************************************************************)
(* Claims about the state cell (SpecState).                                *)
(***************************************************************************)
\* C9: a change-poll of the slot reports ready exactly when the cell's
\* dirty flag is set, and then clears it; otherwise it reports pending and
\* registers the waker of the poll.
C9_PollReadyIffDirty ==
    stLast.op = "poll" =>
        /\ stLast.ret = "ready" <=> stLast.pre.is_changed
        /\ stLast.ret = "ready" => ~cell.is_changed
        /\ stLast.ret = "pending" => cell.waker = Some(stPolls)

\* C10: releasing a mutable view that was written through sets the dirty
\* flag and, if a waker was registered, wakes exactly that waker and takes
\* it out of the cell; no registered waker is woken twice and there are
\* never more wakes than written-through views released.
C10_WriteWakesOnce ==
    /\ (stLast.op = "drop" /\ stLast.wrote) =>
          /\ cell.is_changed
          /\ cell.waker = None
          /\ IsSome(stLast.pre.waker) =>
                stWakes = [n \in 1..(stLast.wakes + 1) |->
                              IF n <= stLast.wakes THEN stWakes[n]
                              ELSE Unwrap(stLast.pre.waker)]
          /\ stLast.pre.waker = None => Len(stWakes) = stLast.wakes
    /\ \A i, j \in 1..Len(stWakes) : i # j => stWakes[i] # stWakes[j]
    /\ Len(stWakes) <= stWritten

\* C10 witness: a waker was registered, one view was written through and
\* released, and that waker was woken; a second written view released
\* afterwards, without a poll in between, woke nobody.
C10_Witness ==
    /\ stLast.op = "drop"
    /\ stLast.wrote
    /\ stWritten = 2
    /\ Len(stWakes) = 1
    /\ stLast.pre.waker = None

(***************************************************************************)
(* Claims about the event multiplexer (SpecTerm).                          *)
(***************************************************************************)
\* everything a queue has been given: what its owner consumed, then what
\* is still pending
Received(id) == tmConsumed[id] \o tmInner[id].pending

DispatchedSince(k) == SubSeq(tmDispatched, k + 1, Len(tmDispatched))

WokenSince(k) == {tmWakes[i] : i \in (k + 1)..Len(tmWakes)}

\* C12: every live subscriber queue has received exactly the events
\* dispatched since its creation, one copy each, in dispatch order; a
\* dispatch wakes and unregisters the waker of every live queue that had one.
C12_EveryLiveQueueGetsOneCopy ==
    /\ \A id \in tmAlive : Received(id) = DispatchedSince(tmBorn[id])
    /\ tmLast.op = "dispatch" =>
          \A id \in tmAlive :
              /\ tmInner[id].waker = None
              /\ IsSome(tmLast.inner[id].waker) =>
                    <<id, Unwrap(tmLast.inner[id].waker)>> \in WokenSince(tmLast.wakes)

\* C12 witness: two live subscribers created before the first of two
\* dispatched events; both received both, one consumed the first, and a
\* registered waker was woken by a dispatch.
C12_Witness ==
    /\ Cardinality(tmAlive) = 2
    /\ Len(tmDispatched) = 2
    /\ \A id \in tmAlive : tmBorn[id] = 0 /\ Len(Received(id)) = 2
    /\ \E id \in tmAlive : Len(tmConsumed[id]) = 1
    /\ Len(tmWakes) = 1

\* C13: a queue starts empty with no waker, and never holds or yields an
\* event that was dispatched before the queue was created.
C13_NoPastEvents ==
    /\ tmLast.op = "events" => tmInner[tmLast.id] = [pending |-> <<>>, waker |-> None]
    /\ \A id \in DOMAIN tmInner :
          \A i \in 1..Len(Received(id)) :
              \A k \in 1..tmBorn[id] : Received(id)[i] # tmDispatched[k]

\* C13 witness: a live queue created after the first dispatch holds the
\* second dispatched event and nothing else.
C13_Witness ==
    \E id \in tmAlive :
        /\ tmBorn[id] = 1
        /\ Len(tmDispatched) = 2
        /\ Received(id) = <<tmDispatched[2]>>

IsIn(seq, id) == \E i \in 1..Len(seq) : seq[i] = id

AliveOf(subs, alive) == LET live(id) == id \in alive IN SelectSeq(subs, live)

\* C14: dropping a subscriber's owner leaves the list as it is; only a
\* dispatch removes entries, it removes exactly those whose owner was gone,
\* gives them nothing, and keeps the live ones in order; a live subscriber
\* is always in the list.
C14_LazyPruning ==
    /\ tmLast.op = "drop" =>
          /\ subscribers = tmLast.subscribers
          /\ IsIn(subscribers, tmLast.id)
    /\ tmLast.op \in {"events", "poll", "return"} =>
          \A id \in DOMAIN tmInner : IsIn(tmLast.subscribers, id) => IsIn(subscribers, id)
    /\ tmLast.op = "dispatch" =>
          /\ subscribers = AliveOf(tmLast.subscribers, tmLast.alive)
          /\ \A id \in DOMAIN tmInner \ tmLast.alive : tmInner[id] = tmLast.inner[id]
    /\ \A id \in tmAlive : IsIn(subscribers, id)

\* C14 witness: a dispatch has just removed a dropped subscriber and kept a
\* live one.
C14_Witness ==
    /\ tmLast.op = "dispatch"
    /\ \E id \in DOMAIN tmInner : IsIn(tmLast.subscribers, id) /\ id \notin tmLast.alive
    /\ Len(subscribers) = 1

(***************************************************************************)
(* Claims about the render loop (SpecLoop, SpecLoopLive).                  *)
(***************************************************************************)
PhaseEdges ==
    {<<"Idle", "Idle">>, <<"Idle", "Updating">>, <<"Updating", "Drawing">>,
     <<"Drawing", "Waiting">>, <<"Drawing", "Terminated">>,
     <<"Waiting", "Waiting">>, <<"Waiting", "Updating">>,
     <<"Waiting", "Terminated">>}

\* C15: the loop only moves Idle -> Updating -> Drawing -> Waiting ->
\* Updating (or to Terminated from Drawing or Waiting); an update starts only
\* when every earlier update has been drawn, and the loop waits only when the
\* last update has been drawn.
C15_PhasesCyclic ==
    /\ <<lpLast.from, lpLast.to>> \in PhaseEdges
    /\ lpPhase = lpLast.to
    /\ lpPhase \in {"Idle", "Updating", "Waiting"} => lpDraws = lpUpdates
    /\ lpPhase = "Drawing" => lpUpdates = lpDraws + 1
    /\ lpPhase = "Waiting" => lpUpdates >= 1
    /\ lpPhase = "Terminated" =>
          lpUpdates = lpDraws + (IF lpLast.from = "Drawing" THEN 1 ELSE 0)

\* C15 witness: the loop waits in its second cycle, two updates and two
\* draws done.
C15_Witness ==
    /\ lpPhase = "Waiting"
    /\ lpUpdates = 2
    /\ lpDraws = 2
    /\ lpLast.from = "Drawing"

\* the termination conditions the resolved input branch can signal: the
\* quit key, Ctrl+C, the stream's end, a read error
TerminationCondition(item) ==
    \/ item.tag \in {"none", "err"}
    \/ item.tag = "ok" /\ item.event.kind = "key" /\ item.event.code = "q"
    \/ item.tag = "ok" /\ item.event.kind = "key" /\ item.event.code = "c"
          /\ item.event.ctrl

\* C16: a resolved select ends the loop exactly when the input branch won
\* with a termination condition, and otherwise starts the next update; a
\* pending select stays Waiting; no step of the loop is ever taken from
\* Terminated.
C16_TerminatesExactlyOnExit ==
    /\ (lpLast.from = "Waiting" /\ lpLast.branch # "pending") =>
          /\ lpLast.to = "Terminated" <=>
                (lpLast.branch = "event" /\ TerminationCondition(lpLast.item))
          /\ lpLast.to # "Terminated" => lpLast.to = "Updating"
    /\ (lpLast.from = "Waiting" /\ lpLast.branch = "pending") => lpLast.to = "Waiting"
    /\ lpLast.from # "Terminated"
    /\ lpPhase = "Terminated" => lpLast.to = "Terminated"

\* C16 witness: Ctrl+C ended the loop in its second cycle and an item that
\* arrived afterwards is still unread.
C16_Witness ==
    /\ lpPhase = "Terminated"
    /\ lpLast.from = "Waiting"
    /\ lpLast.item = [tag |-> "ok", event |-> [kind |-> "key", code |-> "c", ctrl |-> TRUE]]
    /\ lpUpdates = 2
    /\ lpStream # <<>>

\* C17: when render_loop has returned, with success or with a fault, the
\* terminal has been restored.
C17_RestoredBeforeResult == IsSome(lpResult) => lpRestored

C18_NothingLost ==
    /\ swHandled \o swQueue.pending = swDispatched
    /\ (swLast.cell.is_changed /\ ~swCell.is_changed) =>
          (swLast.op = "sweep" /\ swLast.ready)

\* C18 witness: a change-poll has just run while another task held the
\* cell: it reported pending and the dirty flag set before it is still set;
\* both dispatched events have been handed to the callback.
C18_Witness ==
    /\ swLast.op = "sweep"
    /\ ~swLast.ready
    /\ swHeld
    /\ swLast.cell.is_changed
    /\ swCell.is_changed
    /\ Len(swHandled) = 2

(***************************************************************************)
(* Claims about the context stack (SpecCtx).                               *)
(***************************************************************************)
\* where the value pushed by the k-th running with_context sits
FrameAt(k) == Len(ctxFrames[k].before) + 1

RunningIds == {Unwrap(ctxFrames[k].context).id :
                  k \in {j \in 1..Len(ctxFrames) : ctxFrames[j].pushed}}

\* C20: while the body of a with_context that pushed a value runs, the
\* value is on the stack where it was pushed, and a lookup of its type made
\* while it can be borrowed returns it or a value pushed inside the body;
\* when with_context returns, the stack is the stack of before the call;
\* the popped value is not on it, and no lookup returns a value whose
\* with_context has returned.
C20_ScopedContext ==
    /\ \A k \in 1..Len(ctxFrames) :
          ctxFrames[k].pushed =>
              /\ FrameAt(k) <= Len(stack)
              /\ stack[FrameAt(k)] = Unwrap(ctxFrames[k].context)
              /\ (/\ ctxLast.op = "ref"
                  /\ ctxLast.type = stack[FrameAt(k)].type
                  /\ TryBorrow(FrameAt(k), ctxLast.guard)) =>
                    /\ ctxLast.ret >= FrameAt(k)
                    /\ ctxLast.id \in RunningIds
              /\ (/\ ctxLast.op = "mut"
                  /\ DowncastMut(stack[FrameAt(k)], ctxLast.type)
                  /\ TryBorrowMut(FrameAt(k), ctxLast.guard)) =>
                    /\ ctxLast.ret >= FrameAt(k)
                    /\ ctxLast.id \in RunningIds
    /\ ctxLast.op = "return" =>
          /\ stack = ctxLast.before
          /\ ctxLast.id # 0 => \A i \in 1..Len(stack) : stack[i].id # ctxLast.id
    /\ (ctxLast.op \in {"ref", "mut"} /\ ctxLast.ret # 0) =>
          ctxLast.id \in RunningIds \cup {0}

\* C20 witness: inside the body of one with_context a second with_context
\* pushed a value, a lookup in its body returned that value, and it has
\* returned: the stack is the outer body's again.
C20_Witness ==
    /\ ctxLast.op = "return"
    /\ ctxLast.id = 2
    /\ 2 \in ctxFound
    /\ Len(ctxFrames) = 1
    /\ ctxFrames[1].pushed
    /\ Len(stack) = 2

\* C21: when a with_context that was given a value is left because its body
\* panicked, the pushed entry has been popped: the stack has the depth it
\* had before the call.
C21_PoppedOnUnwind ==
    (ctxLast.op = "unwind" /\ ctxLast.id # 0) =>
        Len(stack) = Len(ctxLast.before)

\* the most recently pushed entry of self whose stored type is T, 0 for none
NearestOfType(self, T) ==
    IF \E i \in 1..Len(self) : self[i].type = T
    THEN CHOOSE i \in 1..Len(self) :
            /\ self[i].type = T
            /\ \A j \in (i + 1)..Len(self) : self[j].type # T
    ELSE 0

\* C22: a lookup by type T returns the most recently pushed entry whose
\* stored type is T, and returns nothing only if no entry has type T.
C22_FirstOfType ==
    ctxLast.op = "ref" =>
        ctxLast.ret = NearestOfType(ctxLast.before, ctxLast.type)

\* C30: when no entry of the stack has type T, or the Hooks carries no
\* stack, use_context::<T> and use_context_mut::<T> panic, and
\* try_use_context::<T> and try_use_context_mut::<T> return None instead of
\* panicking.
C30_AbsentType ==
    (/\ ctxUse.accessor \in Accessors
     /\ (~ctxUse.available \/ NearestOfType(ctxUse.before, ctxUse.type) = 0)) =>
        IF ctxUse.accessor \in {"use_context", "use_context_mut"}
        THEN ctxUse.outcome = "panic" /\ ctxPanicked
        ELSE ctxUse.outcome = "none"

\* C30 witness: inside a with_context that pushed a value of type U,
\* use_context_mut::<T> has just panicked because no entry has type T.
C30_Witness ==
    /\ ctxUse.accessor = "use_context_mut"
    /\ ctxUse.outcome = "panic"
    /\ ctxUse.msg = "context not found"
    /\ ctxUse.available
    /\ ctxLast.op = "mut"
    /\ ctxUse.type = "T"
    /\ Len(ctxUse.before) = 2
    /\ ctxUse.before[2].type = "U"

\* C23: a mutable lookup by type T returns the most recently pushed entry of
\* type T or nothing: never an entry pushed before it.
C23_StopsAtNearest ==
    ctxLast.op = "mut" =>
        ctxLast.ret \in {0, NearestOfType(ctxLast.before, ctxLast.type)}

\* C11: a mutable view that is taken, only read through and released leaves
\* the cell as it was when the view was taken (value, registered waker,
\* dirty flag) and wakes nobody.
C11_ReadOnlyViewNoEffect ==
    (stLast.op = "drop" /\ ~stTaken.written) =>
        /\ cell = stTaken.cell
        /\ cell = stLast.pre
        /\ Len(stWakes) = stTaken.wakes

\* C11 witness: a waker is registered and the cell is clean; a mutable view
\* was taken, read through and released.
C11_Witness ==
    /\ stLast.op = "drop"
    /\ ~stTaken.written
    /\ stTaken.read
    /\ IsSome(cell.waker)
    /\ ~cell.is_changed

(***************************************************************************)
(* Claims about the hook engine (SpecHooks).                               *)
(***************************************************************************)
\* C7: the hook cursor starts at zero in every update and advances by one
\* per call; on the first update call n stores its init value as slot n; on
\* a later update call n gets slot n as it was and init is not invoked, so
\* the slot list is left as found; and a slot keeps the state the last
\* update left it with until something writes to it.
C7_SlotsPositionalStable ==
    /\ \A n \in 1..Len(hkLog) : hkLog[n].idx = n - 1
    /\ hkBefore.first_update =>
          /\ Len(hkLog) = Len(hkCalls)
          /\ Len(hkAfter) = Len(hkCalls)
          /\ \A n \in 1..Len(hkLog) :
                /\ hkLog[n].inited
                /\ hkLog[n].ret = Some(n - 1)
                /\ hkAfter[n] = HookSlot(hkCalls[n].type, hkCalls[n].init)
    /\ ~hkBefore.first_update =>
          /\ hkAfter = hkBefore.hooks
          /\ \A n \in 1..Len(hkLog) :
                /\ ~hkLog[n].inited
                /\ IsSome(hkLog[n].ret) =>
                      /\ hkLog[n].ret = Some(n - 1)
                      /\ hkLog[n].slot = Some(hkBefore.hooks[n])
    /\ Len(hkInst.hooks) = Len(hkAfter)
    /\ \A n \in 1..Len(hkAfter) :
          n \notin hkTouched => hkInst.hooks[n] = hkAfter[n]

\* C7 witness: a later update whose two calls got the two slots, the second
\* holding written state, and nothing written since.
C7_Witness ==
    /\ ~hkBefore.first_update
    /\ ~hkFault
    /\ Len(hkLog) = 2
    /\ hkLog[2].slot = Some(HookSlot(hkCalls[2].type, "set"))
    /\ hkTouched = {}

\* C8: on an update after the first, a call whose hook type differs from
\* the type stored in the slot at the cursor panics: it returns no slot, it
\* is the last call of that update, and the update ends as a fault.
C8_TypeMismatchFailsFast ==
    ~hkBefore.first_update =>
        \A n \in 1..Len(hkLog) :
            (n <= Len(hkBefore.hooks) /\ hkBefore.hooks[n].type # hkCalls[n].type)
            => /\ hkLog[n].ret = None
               /\ hkLog[n].slot = None
               /\ Len(hkLog) = n
               /\ hkFault

\* C8 witness: the second call of a later update meets a slot of another
\* type, after a first call that matched.
C8_Witness ==
    /\ ~hkBefore.first_update
    /\ hkFault
    /\ Len(hkLog) = 2
    /\ Len(hkBefore.hooks) = 2
    /\ IsSome(hkLog[1].ret)
    /\ hkBefore.hooks[2].type # hkCalls[2].type

(***************************************************************************)
(* Claims about update_children (SpecRec).  They are stated over the       *)
(* history of the last pass and over descriptions of the expected result   *)
(* that do not go through the multimap's index queues.                     *)
(***************************************************************************)
\* The instances of a sequence that carry key, in order.
RECURSIVE Under(_, _)
Under(instances, key) ==
    IF instances = <<>> THEN <<>>
    ELSE (IF Head(instances).key = key THEN <<Head(instances)>> ELSE <<>>)
         \o Under(Tail(instances), key)

\* The descriptor at position j is the Rank-th of the pass with its key.
Rank(j) ==
    Cardinality({i \in 1..j : recChildren[i].key = recChildren[j].key})

\* The instance FIFO order offers to the descriptor at position j.
Offered(j) ==
    LET stored == Under(recPrev, recChildren[j].key)
    IN  IF Rank(j) <= Len(stored) THEN Some(stored[Rank(j)]) ELSE None

\* The hook slots a new instance of a type has after its first update.
InitialHooks(type) ==
    [n \in 1..Len(TypeBody(type)) |->
        HookSlot(TypeBody(type)[n].type, TypeBody(type)[n].init)]

PassLogged == recJustPassed /\ Len(recLog) = Len(recChildren)

\* C1 as stated: a descriptor whose key and type equal those of an instance
\* of the previous collection is matched to that instance.  Read with
\* charity: an equal instance that no other descriptor of the pass takes
\* is enough to require the match.
C1_Original ==
    recJustPassed =>
        \A j \in 1..Len(recLog) :
            (\E i \in 1..Len(recPrev) :
                /\ recPrev[i].key = recChildren[j].key
                /\ recPrev[i].component = recChildren[j].type
                /\ \A k \in 1..Len(recLog) :
                      k # j => recLog[k].matched.id # recPrev[i].id)
            => /\ recLog[j].reused
               /\ recLog[j].matched.id \in Ids(recPrev)

\* C1 (amended): the i-th descriptor with key K is matched to the i-th
\* instance the previous pass stored under K whenever that instance has the
\* descriptor's component type; the instance keeps its identity and its
\* hook slots, and is not initialised again.
C1_IdentityPreserved ==
    recJustPassed =>
        /\ Len(recLog) = Len(recChildren)
        /\ \A j \in 1..Len(recChildren) :
              (IsSome(Offered(j))
                  /\ Unwrap(Offered(j)).component = recChildren[j].type)
              => /\ recLog[j].reused
                 /\ recLog[j].matched = Unwrap(Offered(j))
                 /\ recLog[j].after.id = Unwrap(Offered(j)).id
                 /\ recLog[j].after.hooks = Unwrap(Offered(j)).hooks
                 /\ MultimapIter(components)[j].hooks = Unwrap(Offered(j)).hooks

\* C1 witness: an instance whose state cell was written survives a pass
\* that also creates a new sibling.
C1_Witness ==
    /\ PassLogged
    /\ \E j \in 1..Len(recLog) :
          /\ recLog[j].reused
          /\ recLog[j].after.hooks[1].val = "set"
    /\ \E j \in 1..Len(recLog) : ~recLog[j].reused

\* C2: a descriptor gets a new instance (no hook slots, first_update set)
\* exactly when no old instance is left under its key or the one popped has
\* another type; the old instance of a changed key or type is dropped, and
\* the new instance holds only initial state after its update.
C2_FreshExactlyWhen ==
    recJustPassed =>
        /\ Len(recLog) = Len(recChildren)
        /\ \A j \in 1..Len(recChildren) :
              LET e == recLog[j]
                  isNew == /\ e.matched.hooks = <<>>
                           /\ e.matched.first_update
                           /\ e.matched.id \notin Ids(recPrev)
                  mismatch == /\ IsSome(Offered(j))
                              /\ Unwrap(Offered(j)).component # recChildren[j].type
              IN  /\ isNew <=> (Offered(j) = None \/ mismatch)
                  /\ isNew <=> ~e.reused
                  /\ mismatch => Unwrap(Offered(j)).id \in recDestroyed
                  /\ isNew => /\ e.after.hooks = InitialHooks(recChildren[j].type)
                              /\ ~e.after.first_update
        /\ \A i \in 1..Len(recPrev) :
              (\A j \in 1..Len(recChildren) : recChildren[j].key # recPrev[i].key)
              => recPrev[i].id \in recDestroyed

\* C2 witness: one pass replaces an instance with written state because the
\* type under its key changed, and creates another under a key that had no
\* instance.
C2_Witness ==
    /\ PassLogged
    /\ \E j \in 1..Len(recLog) :
          /\ IsSome(recLog[j].popped)
          /\ ~recLog[j].reused
          /\ Unwrap(recLog[j].popped).hooks[1].val = "set"
    /\ \E j \in 1..Len(recLog) : recLog[j].popped = None

\* C3: the i-th descriptor with key K is offered the i-th instance the
\* previous pass stored under K, and nothing once those are used up; no
\* descriptor is offered an instance stored under another key.
C3_DuplicateKeysFifo ==
    recJustPassed =>
        /\ Len(recLog) = Len(recChildren)
        /\ \A j \in 1..Len(recChildren) :
              /\ recLog[j].popped = Offered(j)
              /\ IsSome(recLog[j].popped)
                    => Unwrap(recLog[j].popped).key = recChildren[j].key

\* C3 witness: two descriptors with one key take the two instances stored
\* under it, the first of which holds written state and the second not.
C3_Witness ==
    /\ PassLogged
    /\ Len(recLog) = 2
    /\ recChildren[1].key = recChildren[2].key
    /\ IsSome(recLog[1].popped) /\ IsSome(recLog[2].popped)
    /\ Unwrap(recLog[1].popped).hooks[1].val = "set"
    /\ Unwrap(recLog[2].popped).hooks[1].val = "init"

\* C4: after a pass the collection holds exactly one instance per
\* descriptor, in descriptor order, and nothing else; the old instances
\* that were not reused are gone from it and were dropped.
C4_CollectionExact ==
    recJustPassed =>
        LET new == MultimapIter(components)
            kept == {recLog[j].after.id : j \in {i \in 1..Len(recLog) : recLog[i].reused}}
        IN  /\ Len(recLog) = Len(recChildren)
            /\ Len(components.items) = Len(recChildren)
            /\ Len(new) = Len(recChildren)
            /\ \A j \in 1..Len(new) :
                  /\ new[j].key = recChildren[j].key
                  /\ new[j].component = recChildren[j].type
                  /\ new[j] = [recLog[j].after EXCEPT !.id = j]
            /\ \A i, j \in 1..Len(recLog) :
                  i # j => recLog[i].after.id # recLog[j].after.id
            /\ kept \subseteq Ids(recPrev)
            /\ recDestroyed = Ids(recPrev) \ kept

\* C4 witness: a pass that reuses one instance and drops two: one whose key
\* is absent or surplus, found in the old multimap at the end, and one
\* from the other cases.
C4_Witness ==
    /\ PassLogged
    /\ Len(recPrev) = 2
    /\ Len(recChildren) = 1
    /\ Cardinality(recDestroyed) = 1
    /\ recLog[1].reused
    /\ recPrev[1].key = recPrev[2].key

\* The descriptors of a sequence as a set; with distinct keys a sequence is
\* a permutation of another one iff the sets and the lengths agree.
DescriptorSet(children) == {children[j] : j \in 1..Len(children)}

DistinctKeys(children) ==
    \A i, j \in 1..Len(children) : i # j => children[i].key # children[j].key

\* C5: a pass with a permutation of the previous pass's descriptors
\* (distinct keys, same types) keeps the same instances with their state,
\* and the collection iterates in the new descriptor order.
C5_PermutationKeeps ==
    (/\ recJustPassed
     /\ DistinctKeys(recChildren)
     /\ Len(recChildren) = Len(recPrevChildren)
     /\ DescriptorSet(recChildren) = DescriptorSet(recPrevChildren))
    => LET new == MultimapIter(components)
       IN  /\ Len(new) = Len(recChildren)
           /\ {recLog[j].after.id : j \in 1..Len(recLog)} = Ids(recPrev)
           /\ recDestroyed = {}
           /\ \A j \in 1..Len(new) :
                 /\ new[j].key = recChildren[j].key
                 /\ \E i \in 1..Len(recPrev) :
                       /\ recPrev[i].key = new[j].key
                       /\ recLog[j].after = recPrev[i]
                       /\ new[j] = [recPrev[i] EXCEPT !.id = j]

\* C5 witness: two children swapped, one of them with written state.
C5_Witness ==
    /\ PassLogged
    /\ Len(recChildren) = 2
    /\ Len(recPrevChildren) = 2
    /\ DistinctKeys(recChildren)
    /\ recChildren[1] = recPrevChildren[2]
    /\ recChildren[2] = recPrevChildren[1]
    /\ recLog[1].after.hooks[1].val = "set"
    /\ recLog[2].after.hooks[1].val = "init"

(***************************************************************************)
(* Claims about the multimap (SpecMM).                                     *)
(***************************************************************************)
\* The values pushed under key, in push order.
RECURSIVE PushedUnder(_, _)
PushedUnder(pushes, key) ==
    IF pushes = <<>> THEN <<>>
    ELSE (IF Head(pushes).key = key THEN <<Head(pushes).value>> ELSE <<>>)
         \o PushedUnder(Tail(pushes), key)

\* The pops made for key, in pop order.
RECURSIVE PopsOf(_, _)
PopsOf(pops, key) ==
    IF pops = <<>> THEN <<>>
    ELSE (IF Head(pops).key = key THEN <<Head(pops)>> ELSE <<>>)
         \o PopsOf(Tail(pops), key)

\* C6: the i-th pop_front(K) returns the i-th value pushed under K (so never
\* a value of another key and never a value twice); once the values under K
\* are exhausted it returns None and leaves the multimap unchanged.
C6_MultimapFifo ==
    \A key \in Keys :
        LET pushed == PushedUnder(mmPushes, key)
            pops == PopsOf(mmPops, key)
        IN  \A i \in 1..Len(pops) :
                IF i <= Len(pushed)
                THEN pops[i].ret = Some(pushed[i])
                ELSE pops[i].ret = None /\ pops[i].same

\* C6 witness: pushes of two keys interleaved, two values under one key
\* popped in order, and one more pop after that key is exhausted.
C6_Witness ==
    \E key \in Keys :
        /\ Len(PushedUnder(mmPushes, key)) = 2
        /\ Len(PopsOf(mmPops, key)) = 3
        /\ mmPushes[2].key # key
        /\ mmPushes[1].key = key
        /\ mmPushes[3].key = key

(***************************************************************************)
(* Claims about the property carrier (SpecProps).                          *)
(***************************************************************************)
\* the carriers made by owned for the value at raw that have been discarded
DiscardedOwners(raw) ==
    {i \in 1..Len(prCarriers) :
        /\ prCarriers[i].how = "owned"
        /\ prCarriers[i].props.raw = raw
        /\ ~prCarriers[i].live}

\* C24: a value wrapped by owned has been released once if the carrier
\* owned returned has been discarded and not at all otherwise; a value
\* handed to borrowed is never released; discarding a carrier made by
\* borrowed or borrow releases nothing.
C24_ReleasedOnceByOwner ==
    /\ \A raw \in 1..Len(prHeap) :
          prHeap[raw].releases =
              IF prHeap[raw].kind = "box" /\ DiscardedOwners(raw) # {} THEN 1 ELSE 0
    /\ (prLast.op = "drop" /\ prCarriers[prLast.carrier].how # "owned") =>
          prHeap = prLast.heap

\* C24 witness: an owning carrier was re-borrowed, the re-borrowed carrier
\* was discarded while the owner lived, and the owner has just been
\* discarded: its value has been released once.
C24_Witness ==
    /\ prLast.op = "drop"
    /\ prCarriers[prLast.carrier].how = "owned"
    /\ prHeap[prCarriers[prLast.carrier].props.raw].releases = 1
    /\ \E j \in 1..Len(prCarriers) :
          /\ prCarriers[j].how = "borrow"
          /\ prCarriers[j].props.raw = prCarriers[prLast.carrier].props.raw
          /\ ~prCarriers[j].live
    /\ \E j \in 1..Len(prCarriers) :
          prCarriers[j].how = "borrowed" /\ ~prCarriers[j].live

(***************************************************************************)
(* Claims about the change-poll of the tree (SpecTree).                    *)
(***************************************************************************)
\* the slots of the instance n and of the instances under it, parent before
\* children
RECURSIVE SlotsUnder(_)
RECURSIVE SlotsUnderAll(_, _)
SlotsUnder(n) ==
    [i \in 1..Len(TwHooks(n)) |-> <<n, i>>] \o SlotsUnderAll(TwChildren(n), 1)

SlotsUnderAll(children, i) ==
    IF i > Len(children) THEN <<>>
    ELSE SlotsUnder(children[i]) \o SlotsUnderAll(children, i + 1)

\* a sweep polls every slot of every instance once, parent before children,
\* and is ready iff a slot was
SweepPollsAll ==
    twLast.op = "sweep" =>
        /\ [k \in 1..Len(twLast.log) |-> <<twLast.log[k].instance, twLast.log[k].slot>>]
              = SlotsUnder(1)
        /\ twLast.ready <=> \E k \in 1..Len(twLast.log) : twLast.log[k].ret = "ready"

\* after a sweep no cell that was free during it is dirty, and every such
\* cell that was not dirty has the waker of the sweep registered
SweepClearsFreeCells ==
    twLast.op = "sweep" =>
        \A c \in TwCellIds :
            ~twLast.before[c].held =>
                /\ ~twCells[c].value.is_changed
                /\ ~twLast.before[c].value.is_changed =>
                      twCells[c].value.waker = Some(twLast.waker)

\* C25: a sweep polls every slot of every instance, parent before children,
\* and is ready iff a slot was; after it no cell is dirty, and every cell
\* that was not dirty has the waker of the sweep registered.
C25_SweepClearsAll ==
    /\ SweepPollsAll
    /\ twLast.op = "sweep" =>
          \A c \in TwCellIds :
              /\ ~twCells[c].value.is_changed
              /\ ~twLast.before[c].value.is_changed =>
                    twCells[c].value.waker = Some(twLast.waker)

(***************************************************************************)
(* Claims about the lifecycle callbacks of an update (SpecUpd).            *)
(***************************************************************************)
CbEntry(cb, n, i) == [cb |-> cb, instance |-> n, slot |-> i]

CbRan(cb, n, i) == \E k \in 1..Len(upLast.log) : upLast.log[k] = CbEntry(cb, n, i)

\* where the callback stands in the log of the update, 0 if it did not run
CbPos(cb, n, i) ==
    IF CbRan(cb, n, i)
    THEN CHOOSE k \in 1..Len(upLast.log) : upLast.log[k] = CbEntry(cb, n, i)
    ELSE 0

CbCount(cb, n) ==
    Cardinality({k \in 1..Len(upLast.log) :
                    upLast.log[k].cb = cb /\ upLast.log[k].instance = n})

\* the instance was updated in the last update of the root
UpdatedInLast(n) == CbRan("body", n, 0)

\* the callbacks cb of the slots 1..count of n ran once each, in slot order
InSlotOrder(cb, n, count) ==
    /\ CbCount(cb, n) = count
    /\ \A i \in 1..count :
          /\ CbRan(cb, n, i)
          /\ i > 1 => CbPos(cb, n, i - 1) < CbPos(cb, n, i)

\* C26 as stated: in an update of an instance the pre-update callback of
\* every slot of the instance runs, in slot order, before the body, and the
\* post-update callback of every slot, in slot order, after the body has
\* returned.
C26_Original ==
    \A n \in TwInstances :
        UpdatedInLast(n) =>
            /\ InSlotOrder("pre", n, Len(upInst[n].hooks))
            /\ InSlotOrder("post", n, Len(upInst[n].hooks))
            /\ \A i \in 1..Len(upInst[n].hooks) :
                  /\ CbPos("pre", n, i) < CbPos("body", n, 0)
                  /\ CbPos("return", n, 0) < CbPos("post", n, i)

\* C26 (amended): in an update of an instance the pre-update callback of
\* every slot the instance holds when the update starts (none in its first
\* update) runs, in slot order, before the body; the post-update callback
\* of every slot it holds when the body has returned runs, in slot order,
\* after the body has returned; the updates of its children, with their
\* callbacks, lie between the start and the return of the body.
C26_CallbacksAroundBody ==
    \A n \in TwInstances :
        UpdatedInLast(n) =>
            /\ CbRan("return", n, 0)
            /\ CbPos("body", n, 0) < CbPos("return", n, 0)
            /\ InSlotOrder("pre", n, Len(upLast.before[n].hooks))
            /\ \A i \in 1..Len(upLast.before[n].hooks) :
                  CbPos("pre", n, i) < CbPos("body", n, 0)
            /\ InSlotOrder("post", n, Len(upInst[n].hooks))
            /\ \A i \in 1..Len(upInst[n].hooks) :
                  CbPos("return", n, 0) < CbPos("post", n, i)
            /\ \A k \in 1..Len(upLast.log) :
                  (\E j \in 1..Len(TwChildren(n)) :
                      upLast.log[k].instance = TwChildren(n)[j]) =>
                        /\ CbPos("body", n, 0) < k
                        /\ k < CbPos("return", n, 0)

\* C26 witness: an update in which the root and its child 2 are updated
\* again and the child 4 of 2 for the first time: the slots of 1 and 2 got
\* their pre-update callbacks, the slot of 4 only its post-update callback,
\* which ran before the post-update callbacks of 2 and 1.
C26_Witness ==
    /\ UpdatedInLast(4)
    /\ Len(upLast.before[2].hooks) = 1
    /\ ~upLast.before[4].alive
    /\ CbRan("pre", 1, 2)
    /\ CbRan("pre", 2, 1)
    /\ ~CbRan("pre", 4, 1)
    /\ CbPos("post", 4, 1) < CbPos("post", 2, 1)
    /\ CbPos("post", 2, 1) < CbPos("post", 1, 1)
    /\ upInst[4].hooks[1].post = 1

(***************************************************************************)
(* Claims about the event hooks (SpecEvents).                              *)
(***************************************************************************)
\* x <= column < x + width and y <= row < y + height of the recorded region
InsideRecorded(event) ==
    /\ evLast.area.x <= event.column
    /\ event.column < evLast.area.x + evLast.area.width
    /\ evLast.area.y <= event.row
    /\ event.row < evLast.area.y + evLast.area.height

\* what the claim lets through
ShouldPass(event) ==
    IF Unwrap(evHook).in_component /\ event.kind = "mouse"
    THEN InsideRecorded(event)
    ELSE TRUE

\* C27: of the events a poll takes from the queue, a local hook passes to
\* its callback, in order, the mouse events inside the region recorded at
\* the last draw and every event that is not a mouse event; a global hook
\* passes every event.
C27_LocalFilter ==
    evLast.op = "poll" =>
        /\ evLast.passed = SelectSeq(evLast.taken, ShouldPass)
        /\ evLast.area = Unwrap(evHook).component_area

\* C27 witness: a local hook drawn in the region at (1, 1) of width 2 and
\* height 1 took a mouse event on the first column right of the region and
\* one on its last column, and passed only the second.
C27_Witness ==
    /\ evLast.op = "poll"
    /\ Unwrap(evHook).in_component
    /\ evLast.area = [x |-> 1, y |-> 1, width |-> 2, height |-> 1]
    /\ Len(evLast.taken) = 2
    /\ evLast.taken[1] = [kind |-> "mouse", column |-> 3, row |-> 1]
    /\ evLast.taken[2] = [kind |-> "mouse", column |-> 2, row |-> 1]
    /\ evLast.passed = <<evLast.taken[2]>>

(***************************************************************************)
(* Claims about the State handle (SpecHandle).                             *)
(***************************************************************************)
\* C28: a call made on any copy of the handle after the owner of the cell
\* was dropped returns None from try_read and try_write and panics in read
\* and write; no such call returns a value.
C28_DroppedOwner ==
    \A e \in shAfterDrop :
        /\ e.accessor \in {"try_read", "try_write"} => e.outcome = "none"
        /\ e.accessor \in {"read", "write"} => e.outcome = "panic"
        /\ e.value = ""

\* C28 witness: after the owner was dropped one copy of the handle got None
\* from try_read and from try_write, the other copy panicked in read, and the
\* slot holds the cell of another use_state by now.
C28_Witness ==
    /\ [handle |-> 1, accessor |-> "try_read", outcome |-> "none", value |-> ""]
          \in shAfterDrop
    /\ [handle |-> 1, accessor |-> "try_write", outcome |-> "none", value |-> ""]
          \in shAfterDrop
    /\ [handle |-> 2, accessor |-> "read", outcome |-> "panic", value |-> ""]
          \in shAfterDrop
    /\ shSlot.in_use
    /\ shSlot.value = "v1"
    /\ shLast.op = "read"

\* C29: write panics only when the owner has been dropped, and try_write
\* returns None only when the owner has been dropped.
C29_WriteFailsOnlyWhenDropped ==
    /\ (shLast.op = "write" /\ shLast.outcome = "panic") =>
          ~BoxValid(ShHandle, shLast.slot)
    /\ (shLast.op = "try_write" /\ shLast.outcome = "none") =>
          ~BoxValid(ShHandle, shLast.slot)

(***************************************************************************)
(* Claims about a popped instance of another type (SpecRec).               *)
(***************************************************************************)
\* The descriptors of the last pass that popped an instance of a type other
\* than their own.
Mismatched ==
    {i \in 1..Len(recLog) :
        /\ IsSome(recLog[i].popped)
        /\ Unwrap(recLog[i].popped).component # recLog[i].child.type}

\* C31: an old instance popped for a descriptor of another component type
\* is dropped and replaced by a new instance, the pass goes on without a
\* fault, and no later descriptor of the pass is offered or given that old
\* instance, whatever its key and type.
C31_MismatchDiscarded ==
    \A i \in Mismatched :
        LET old == Unwrap(recLog[i].popped)
        IN  /\ ~recFault
            /\ ~recLog[i].reused
            /\ old.id \in recDestroyed
            /\ recLog[i].matched.id \notin Ids(recPrev)
            /\ recLog[i].matched.hooks = <<>>
            /\ \A j \in 1..Len(recLog) :
                  /\ recLog[j].matched.id # old.id
                  /\ recLog[j].after.id # old.id
                  /\ j > i => recLog[j].popped # Some(old)

\* C31 witness: two descriptors share a key; the first pops an instance of
\* the second's type, and the second gets a new instance all the same.
C31_Witness ==
    /\ PassLogged
    /\ Len(recLog) = 2
    /\ 1 \in Mismatched
    /\ recChildren[1].key = recChildren[2].key
    /\ Unwrap(recLog[1].popped).component = recChildren[2].type
    /\ Unwrap(recLog[1].popped).hooks[1].val = "set"
    /\ ~recLog[2].reused

(***************************************************************************)
(* Claims about the draw pass (SpecDraw).                                  *)
(***************************************************************************)
\* The position in the last pass's record of a step of an instance.
DrPos(step, n, slot) ==
    CHOOSE i \in 1..Len(drLog) :
        drLog[i].step = step /\ drLog[i].instance = n /\ drLog[i].slot = slot

DrCount(step, n, slot) ==
    Cardinality({i \in 1..Len(drLog) :
        drLog[i].step = step /\ drLog[i].instance = n /\ drLog[i].slot = slot})

\* The position of the last step of instance n: its last post-draw callback.
DrEnd(n) == DrPos("post", n, Len(TwHooks(n)))

\* The region instance n is handed: the frame's for the root, the one its
\* parent assigned otherwise.
DrIncoming(n) ==
    IF n = 1 THEN drIn ELSE drLog[DrPos("child", n, 0)].area

\* C32: in a draw pass every instance's steps are, in this order and with
\* nothing in between: its region is set to inner_area of the incoming
\* region, each slot's pre-draw callback in slot order, the component's own
\* draw, then for each child in collection order the assignment of the
\* child's computed region followed by the child's whole draw, then each
\* slot's post-draw callback in slot order.  So every step of a child lies
\* after its parent's own draw and before its parent's first post-draw
\* callback.
C32_DrawOrder ==
    drDraws > 0 =>
        \A n \in TwInstances :
            LET hooks == Len(TwHooks(n))
                children == TwChildren(n)
                start == DrPos("area", n, 0)
                own == DrPos("draw", n, 0)
            IN  /\ DrCount("area", n, 0) = 1
                /\ DrCount("draw", n, 0) = 1
                /\ drLog[start].area = inner_area(drAt[n], DrIncoming(n))
                /\ \A i \in 1..hooks :
                      /\ DrCount("pre", n, i) = 1
                      /\ DrCount("post", n, i) = 1
                      /\ DrPos("pre", n, i) = start + i
                      /\ DrPos("post", n, i) = DrPos("post", n, 1) + i - 1
                      /\ drLog[DrPos("pre", n, i)].area = drLog[start].area
                /\ own = start + hooks + 1
                /\ \A i \in 1..Len(children) :
                      /\ DrCount("child", children[i], 0) = 1
                      /\ DrPos("child", children[i], 0) =
                            (IF i = 1 THEN own ELSE DrEnd(children[i - 1])) + 1
                      /\ DrPos("area", children[i], 0) =
                            DrPos("child", children[i], 0) + 1
                      /\ drLog[DrPos("child", children[i], 0)].area =
                            calc_children_areas(children, drAt[n],
                                                drLog[own].area)[i]
                      /\ \A k \in 1..Len(drLog) :
                            drLog[k].instance = children[i]
                            => own < k /\ k < DrPos("post", n, 1)
                /\ DrPos("post", n, 1) =
                      (IF children = <<>> THEN own
                       ELSE DrEnd(children[Len(children)])) + 1
                /\ n = 1 => start = 1 /\ DrEnd(n) = Len(drLog)

\* C32 witness: a pass over the tree in which the root's layout style moved
\* and shrank its region, so that its two children were drawn in regions
\* computed from the inner one, the second after the whole subtree of the
\* first.
C32_Witness ==
    /\ drDraws > 0
    /\ drLog[1].area # drIn
    /\ drLog[1].area.width > 1
    /\ DrPos("area", 3, 0) > DrEnd(4)
    /\ DrEnd(4) > DrPos("draw", 2, 0)
    /\ drLog[DrPos("child", 3, 0)].area # drLog[DrPos("child", 2, 0)].area

(***************************************************************************)
(* Claims about the number of hook slots (SpecHooks).                      *)
(***************************************************************************)
\* C33: an update after the first leaves the number of slots as it found
\* it, whether it ends or panics: no call of it stores a slot; a call made
\* with the cursor past the last slot returns nothing, is the last call of
\* the update and the update ends as a fault; an update that makes fewer
\* calls than there are slots leaves all slots as they were; and a
\* change-poll visits every slot, once, in order.
C33_SlotCountFixed ==
    /\ ~hkBefore.first_update =>
          /\ Len(hkAfter) = Len(hkBefore.hooks)
          /\ Len(hkInst.hooks) = Len(hkBefore.hooks)
          /\ \A n \in 1..Len(hkLog) : ~hkLog[n].inited
          /\ \A n \in 1..Len(hkLog) :
                n > Len(hkBefore.hooks)
                => /\ hkLog[n].ret = None
                   /\ n = Len(hkBefore.hooks) + 1
                   /\ Len(hkLog) = n
                   /\ hkFault
          /\ (~hkFault /\ Len(hkCalls) < Len(hkBefore.hooks))
                => hkAfter = hkBefore.hooks
    /\ IsSome(hkPolled) =>
          /\ Len(Unwrap(hkPolled)) = Len(hkInst.hooks)
          /\ \A n \in 1..Len(hkInst.hooks) : Unwrap(hkPolled)[n] = n

\* C33 witness (more): a later update registers one hook more than the
\* first update did, after a call that got its slot.
C33_Witness ==
    /\ ~hkBefore.first_update
    /\ Len(hkBefore.hooks) = 1
    /\ Len(hkCalls) = 2
    /\ Len(hkLog) = 2
    /\ IsSome(hkLog[1].ret)
    /\ hkFault

(***************************************************************************)
(* Claims about a write that meets the change-poll (SpecLoopLive).         *)
(***************************************************************************)
\* C34: once the cell has been written through a mutable view and the view
\* is released, a loop that is Waiting leaves Waiting, with no input item
\* needed: when the select has been polled and the cell is dirty and free,
\* the loop's task has been woken.
C34_WriteResumes ==
    (lpPhase = "Waiting" /\ lpCell.is_changed /\ ~lpHeld) ~> (lpPhase # "Waiting")

(***************************************************************************)
(* Claims about a callback that writes a cell during a sweep (SpecOrder).  *)
(***************************************************************************)
\* what C35 says of a completed sweep and of the sweep before it
CallbackResumes(last, prev) ==
    /\ (last.mutated /\ last.order = <<"events", "state">>) => last.is_ready
    /\ (last.mutated /\ last.order = <<"state", "events">>
            /\ last.state = "pending") => last.woke
    /\ (prev.mutated /\ prev.order = <<"state", "events">>
            /\ prev.state = "pending") => last.is_ready

\* C35: when a callback run by the sweep writes the state cell, then with
\* the state slot after the events slot the sweep reports ready, and with
\* the state slot before it (polled pending) the write wakes the loop's
\* waker and the next sweep reports ready.
C35_CallbackResumes ==
    odPos = 0 => CallbackResumes(odLast, odPrev)

\* The same for sweeps during whose polls no other task held a view of the
\* cell.
CallbackResumesWhenFree ==
    (odPos = 0 /\ ~odLast.held /\ ~odPrev.held) => CallbackResumes(odLast, odPrev)

\* Both orders occur with a callback's write while the cell is free.
CallbackWritesLater ==
    /\ odPos = 0 /\ ~odLast.held /\ odLast.mutated
    /\ odLast.order = <<"events", "state">> /\ odLast.is_ready

CallbackWritesEarlier ==
    /\ odPos = 0 /\ ~odLast.held /\ ~odPrev.held /\ odPrev.mutated
    /\ odPrev.order = <<"state", "events">> /\ odPrev.state = "pending"
    /\ odPrev.woke /\ odLast.is_ready

(***************************************************************************)
(* Claims about the updates of a pass (SpecPass).                          *)
(***************************************************************************)
\* The steps of the last pass that belong to descriptor j, in order.
RECURSIVE PsStepsFrom(_, _)
PsStepsFrom(log, j) ==
    IF log = <<>> THEN <<>>
    ELSE (IF Head(log).j = j THEN <<Head(log)>> ELSE <<>>) \o PsStepsFrom(Tail(log), j)

PsOps(steps) == [i \in 1..Len(steps) |-> steps[i].op]

\* C36: the steps of a pass are, descriptor by descriptor in descriptor
\* order, the match (a reuse, or the construction of a new instance from
\* the descriptor's value), then one update of that instance with the
\* descriptor's value, then the store; every step of a descriptor precedes
\* every step of the next; the value has not been released at any of these
\* steps, and after the pass each value has been released once; and the
\* instance stored for a descriptor has one update more than it had, with
\* the descriptor's value.
C36_OneUpdateEach ==
    psPasses > 0 =>
        /\ \A i \in 1..Len(psLog) : \A k \in 1..Len(psLog) :
              i < k => psLog[i].j <= psLog[k].j
        /\ \A j \in 1..Len(psChildren) :
              LET steps == PsStepsFrom(psLog, j)
                  stored == MultimapIter(psComponents)[j]
              IN  /\ PsOps(steps) \in {<<"reuse", "update", "store">>,
                                       <<"new", "update", "store">>}
                  /\ \A i \in 1..3 :
                        /\ steps[i].value = psChildren[j].value
                        /\ steps[i].releases = 0
                        /\ steps[i].id = steps[1].id
                  /\ psHeap[j].releases = 1
                  /\ stored.updates # <<>>
                  /\ stored.updates[Len(stored.updates)] = psChildren[j].value
                  /\ steps[1].op = "new" =>
                        /\ stored.made_from = psChildren[j].value
                        /\ stored.updates = <<psChildren[j].value>>
        /\ Len(MultimapIter(psComponents)) = Len(psChildren)

\* C36 witness: a pass of two descriptors with different values, the first
\* reusing an instance made and updated with another value, the second
\* creating one.
C36_Witness ==
    /\ psPasses = 2
    /\ Len(psChildren) = 2
    /\ psChildren[1].value # psChildren[2].value
    /\ PsOps(PsStepsFrom(psLog, 1)) = <<"reuse", "update", "store">>
    /\ PsOps(PsStepsFrom(psLog, 2)) = <<"new", "update", "store">>
    /\ MultimapIter(psComponents)[1].made_from # psChildren[1].value
    /\ Len(MultimapIter(psComponents)[1].updates) = 2

(***************************************************************************)
(* Claims about the event hook's queue (SpecSubscribe).                    *)
(***************************************************************************)
\* C37: from its first update on the hook holds the queue created in that
\* update, the only one ever created for it and the only subscriber it
\* adds; and no dispatched event is handed to its callback twice.
C37_OneQueue ==
    /\ sbUpdates = 0 => sbHook = None /\ sbInner = <<>>
    /\ sbUpdates > 0 =>
          /\ Unwrap(sbHook).events = Some(1)
          /\ Len(sbInner) = 1
          /\ sbSubscribers = <<1>>
          /\ sbAlive = {1}
    /\ \A i \in 1..Len(sbHandled) : \A j \in 1..Len(sbHandled) :
          sbHandled[i].event = sbHandled[j].event => i = j
    /\ \A i \in 1..Len(sbHandled) : sbHandled[i].event \in 1..sbSent

\* C37 witness: after three updates an event dispatched between the second
\* and the third has been handed to the callback, once.
C37_Witness ==
    /\ sbUpdates = 3
    /\ sbSent > 0
    /\ \E i \in 1..Len(sbHandled) : sbHandled[i].f = Some(3)
    /\ sbLast.op = "poll"

CtrlCKey(event) == event.code = "c" /\ event.ctrl

EventsOf(q) == {q[i] : i \in 1..Len(q)}

\* C39: no Ctrl+C event is ever dispatched, queued or consumed; a turn of
\* wait that reads one sets received_ctrl_c, returns and leaves subscribers
\* and queues as they were; a turn that reads a stream end or an error
\* returns with the flag as it was, and a turn that reads any other event
\* dispatches it with the flag as it was; no other operation changes the
\* flag, so it is false until a Ctrl+C is read and true from then on.
C39_CtrlCNotDispatched ==
    /\ \A e \in EventsOf(tmDispatched) : ~CtrlCKey(e)
    /\ \A id \in DOMAIN tmInner :
          /\ \A e \in EventsOf(tmInner[id].pending) : ~CtrlCKey(e)
          /\ \A e \in EventsOf(tmConsumed[id]) : ~CtrlCKey(e)
    /\ (tmLast.item.tag = "ok" /\ CtrlCKey(tmLast.item.event)) =>
          /\ tmLast.op = "return"
          /\ received_ctrl_c
          /\ tmInner = tmLast.inner
          /\ subscribers = tmLast.subscribers
    /\ tmLast.item.tag \in {"err", "none"} =>
          /\ tmLast.op = "return"
          /\ received_ctrl_c = tmLast.flag
    /\ (tmLast.item.tag = "ok" /\ ~CtrlCKey(tmLast.item.event)) =>
          /\ tmLast.op = "dispatch"
          /\ received_ctrl_c = tmLast.flag
          /\ tmDispatched[Len(tmDispatched)] = tmLast.item.event
    /\ tmLast.item.tag = "-" => received_ctrl_c = tmLast.flag
    /\ tmLast.flag => received_ctrl_c

\* C39 witness: wait has dispatched an event to a subscriber and then read
\* a Ctrl+C: the flag went from false to true and the queue still holds
\* only the first event.
C39_Witness ==
    /\ tmLast.op = "return"
    /\ tmLast.item.tag = "ok"
    /\ ~tmLast.flag
    /\ received_ctrl_c
    /\ Len(tmDispatched) = 1
    /\ \E id \in DOMAIN tmInner : tmInner[id].pending = tmDispatched

(***************************************************************************)
(* Claims about the loop of State::try_read (SpecSpin, SpecSpinLive).      *)
(***************************************************************************)
\* what a return of try_read and a turn of its loop met
TryReadAnswers ==
    /\ spLast.op = "return" =>
         /\ spLast.outcome = "some" <=> spLast.valid
         /\ spLast.outcome = "none" <=> ~spLast.valid
    /\ spLast.op = "continue" => spLast.mut

C40_WitnessSelfHeld ==
    /\ spPc = "try_read"
    /\ spTurns > 0
    /\ spMut /\ spHolder = "self"

\* without the condition on the holders: every call of try_read returns
TryReadAlwaysReturns == [](spPc # "idle" => <>(spPc = "idle"))

====
